---- MODULE Spec2Model ----
(***************************************************************************)
(* Lesson page (src/app/page.tsx), name form (NameInput.tsx) and the       *)
(* MediaPipe camera component (CameraComponent.tsx) of spell-your-name.    *)
(*                                                                         *)
(* Time.  The code reads Date.now() and arms setTimeout timers.  The model *)
(* keeps every time value relative to the present instant: a timer is its  *)
(* remaining delay, stableStartTimeRef is now - stableStartTimeRef.current *)
(* (so "ref = now" is 0 and "now - ref" is the stored value).  Tick moves  *)
(* the present forward by TickMs.  Elapsed times saturate at the largest   *)
(* value the code compares them with.  A due timer and a scheduled effect  *)
(* run before the present moves on; within one instant every order of      *)
(* frames, clicks, timers and effects is possible.                         *)
(*                                                                         *)
(* React.  An event handler and the render it causes form one step.  The   *)
(* passive stability effect scheduled by that render is a step of its own  *)
(* (effectPending); a MediaPipe result may arrive before it has run, in    *)
(* which case React flushes it before rendering the new hand state.        *)
(*                                                                         *)
(* Other code.  The counter-based CameraComponent versions kept in         *)
(* src/unnamed (part_001, part_002) and the evaluation service listed in   *)
(* src/README.md are not mounted by the page.  Each has its own variables  *)
(* and specification (VariantSpec, ClassifierSpec, PatternSpec); under     *)
(* Spec and LiveSpec those variables keep their initial values.            *)
(***************************************************************************)
EXTENDS Integers, Sequences, FiniteSets, TLC

\* ------------------------------------------------------------------ bounds
MaxNameLen == 3
\* counter-based variants: largest detectionCount and most pending timers
MaxDetections == 4
MaxPendingConfirms == 2
\* camera start-up: most CameraComponent instances mounted one after another
MaxMounts == 2

\* -------------------------------------------------------- program constants
ANALYSIS_INTERVAL == 100
STABILITY_DURATION == 1000
PROCESSING_COOLDOWN == 1500
CIRCLE_RADIUS == 80
GUARD_DELAY == 2000
CANVAS_WIDTH == 640
CANVAS_HEIGHT == 480
\* confidence values are kept in tenths: 0.8 is 8, the 0.2 tolerance is 2
CONFIDENCE_IN_CIRCLE == 8
CONFIDENCE_TOLERANCE == 2

\* granularity of the model's clock
TickMs == STABILITY_DURATION \div 2

NULL == -1

Min(a, b) == IF a < b THEN a ELSE b
Max(a, b) == IF a > b THEN a ELSE b
Abs(a) == IF a < 0 THEN -a ELSE a

\* an elapsed time t after TickMs more, saturating at cap; NULL stays NULL
Older(t, cap) == IF t = NULL THEN NULL ELSE Min(t + TickMs, cap)
\* a remaining delay after TickMs more; NULL stays NULL
Sooner(t) == IF t = NULL THEN NULL ELSE Max(t - TickMs, 0)

\* ------------------------------------------------------------- characters
LowerCase == <<"a","b","c","d","e","f","g","h","i","j","k","l","m",
               "n","o","p","q","r","s","t","u","v","w","x","y","z">>
UpperCase == <<"A","B","C","D","E","F","G","H","I","J","K","L","M",
               "N","O","P","Q","R","S","T","U","V","W","X","Y","Z">>

\* the two characters outside a-z that the Unicode case mapping takes to an
\* ASCII letter, named by their code points: dotless i and long s
DotlessI == "U+0131"
LongS == "U+017F"

\* String.prototype.toUpperCase on one character
UpperChar(c) ==
  IF \E i \in 1..26 : LowerCase[i] = c
  THEN UpperCase[CHOOSE i \in 1..26 : LowerCase[i] = c]
  ELSE IF c = DotlessI THEN "I"
  ELSE IF c = LongS THEN "S"
  ELSE c

toUpperCase(s) == [i \in 1..Len(s) |-> UpperChar(s[i])]

RECURSIVE trimStart(_)
trimStart(s) ==
  IF s # <<>> /\ Head(s) = " " THEN trimStart(Tail(s)) ELSE s

RECURSIVE trimEnd(_)
trimEnd(s) ==
  IF s # <<>> /\ s[Len(s)] = " " THEN trimEnd(SubSeq(s, 1, Len(s) - 1)) ELSE s

\* a trim that leaves trailing white space
trimLeadingOnly(s) == trimStart(s)

\* String.prototype.trim
trim(s) == trimEnd(trimStart(s))

\* characters the user can type in the model
InputChars == {"a", "D", " "}

RECURSIVE SeqsUpTo(_, _)
SeqsUpTo(S, n) ==
  IF n = 0 THEN {<<>>}
  ELSE LET shorter == SeqsUpTo(S, n - 1)
       IN shorter \cup {Append(s, c) : s \in {t \in shorter : Len(t) = n - 1}, c \in S}

\* contents of the name field when the form is submitted
TypedNames == SeqsUpTo(InputChars, MaxNameLen)

\* --------------------------------------------------------- gesture patterns
FingerGuide(t, i, m, r, p) ==
  [thumb |-> t, index |-> i, middle |-> m, ring |-> r, pinky |-> p]

gesturePatterns ==
  "A" :> FingerGuide(FALSE, FALSE, FALSE, FALSE, FALSE) @@
  "B" :> FingerGuide(FALSE, TRUE,  TRUE,  TRUE,  TRUE)  @@
  "C" :> FingerGuide(FALSE, FALSE, FALSE, FALSE, FALSE) @@
  "D" :> FingerGuide(FALSE, TRUE,  FALSE, FALSE, FALSE) @@
  "E" :> FingerGuide(FALSE, FALSE, FALSE, FALSE, FALSE) @@
  "F" :> FingerGuide(TRUE,  TRUE,  TRUE,  FALSE, FALSE) @@
  "G" :> FingerGuide(FALSE, TRUE,  FALSE, FALSE, FALSE) @@
  "H" :> FingerGuide(FALSE, TRUE,  TRUE,  FALSE, FALSE) @@
  "I" :> FingerGuide(FALSE, FALSE, FALSE, FALSE, TRUE)  @@
  "J" :> FingerGuide(FALSE, FALSE, FALSE, FALSE, TRUE)  @@
  "K" :> FingerGuide(FALSE, TRUE,  TRUE,  FALSE, FALSE) @@
  "L" :> FingerGuide(TRUE,  TRUE,  FALSE, FALSE, FALSE) @@
  "M" :> FingerGuide(FALSE, FALSE, FALSE, FALSE, FALSE) @@
  "N" :> FingerGuide(FALSE, FALSE, FALSE, FALSE, FALSE) @@
  "O" :> FingerGuide(FALSE, FALSE, FALSE, FALSE, FALSE) @@
  "P" :> FingerGuide(FALSE, TRUE,  FALSE, FALSE, FALSE) @@
  "Q" :> FingerGuide(FALSE, TRUE,  FALSE, FALSE, FALSE) @@
  "R" :> FingerGuide(FALSE, TRUE,  TRUE,  FALSE, FALSE) @@
  "S" :> FingerGuide(FALSE, FALSE, FALSE, FALSE, FALSE) @@
  "T" :> FingerGuide(FALSE, FALSE, FALSE, FALSE, FALSE) @@
  "U" :> FingerGuide(FALSE, TRUE,  TRUE,  FALSE, FALSE) @@
  "V" :> FingerGuide(FALSE, TRUE,  TRUE,  FALSE, FALSE) @@
  "W" :> FingerGuide(FALSE, TRUE,  TRUE,  TRUE,  FALSE) @@
  "X" :> FingerGuide(FALSE, TRUE,  FALSE, FALSE, FALSE) @@
  "Y" :> FingerGuide(TRUE,  FALSE, FALSE, FALSE, TRUE)  @@
  "Z" :> FingerGuide(FALSE, TRUE,  FALSE, FALSE, FALSE)

\* ------------------------------------------------------------- hand frames
\* A landmark is [x, y] in hundredths of the frame (0.5 is 50).  MakeHand
\* places a hand with its wrist at (wx, wy) and the fingers posed as fg.
MakeHand(wx, wy, fg) ==
  [i \in 0..20 |->
     CASE i = 2  -> [x |-> wx + 10, y |-> wy - 5]
       [] i = 4  -> IF fg.thumb THEN [x |-> wx + 20, y |-> wy - 10]
                                ELSE [x |-> wx + 8,  y |-> wy - 6]
       [] i = 6  -> [x |-> wx + 5, y |-> wy - 20]
       [] i = 8  -> [x |-> wx + 5, y |-> IF fg.index THEN wy - 30 ELSE wy - 12]
       [] i = 10 -> [x |-> wx, y |-> wy - 22]
       [] i = 12 -> [x |-> wx, y |-> IF fg.middle THEN wy - 34 ELSE wy - 12]
       [] i = 14 -> [x |-> wx - 5, y |-> wy - 20]
       [] i = 16 -> [x |-> wx - 5, y |-> IF fg.ring THEN wy - 30 ELSE wy - 12]
       [] i = 18 -> [x |-> wx - 10, y |-> wy - 16]
       [] i = 20 -> [x |-> wx - 10, y |-> IF fg.pinky THEN wy - 24 ELSE wy - 10]
       [] OTHER  -> [x |-> wx, y |-> wy]]

FistPose == FingerGuide(FALSE, FALSE, FALSE, FALSE, FALSE)
PointPose == FingerGuide(FALSE, TRUE, FALSE, FALSE, FALSE)

\* results.multiHandLandmarks of one MediaPipe result: no hand, a hand in
\* the centre of the frame, a hand near the right border
Frames ==
  { <<>>,
    <<MakeHand(50, 50, FistPose)>>,
    <<MakeHand(50, 50, PointPose)>>,
    <<MakeHand(90, 50, FistPose)>> }

\* a thumb that counts as extended as soon as its tip is farther from the
\* wrist than its MCP joint
detectFingerStatesNoMargin(landmarks) ==
  LET thumbTip == landmarks[4]
      thumbMCP == landmarks[2]
      wrist == landmarks[0]
      thumbExtension == Abs(thumbTip.x - wrist.x) + Abs(thumbTip.y - wrist.y)
      mcpExtension == Abs(thumbMCP.x - wrist.x) + Abs(thumbMCP.y - wrist.y)
  IN [thumb  |-> thumbExtension > mcpExtension,
      index  |-> landmarks[8].y < landmarks[6].y,
      middle |-> landmarks[12].y < landmarks[10].y,
      ring   |-> landmarks[16].y < landmarks[14].y,
      pinky  |-> landmarks[20].y < landmarks[18].y]

detectFingerStates(landmarks) ==
  LET thumbTip == landmarks[4]
      thumbMCP == landmarks[2]
      wrist == landmarks[0]
      thumbExtension == Abs(thumbTip.x - wrist.x) + Abs(thumbTip.y - wrist.y)
      mcpExtension == Abs(thumbMCP.x - wrist.x) + Abs(thumbMCP.y - wrist.y)
  IN [thumb  |-> 10 * thumbExtension > 12 * mcpExtension,
      index  |-> landmarks[8].y < landmarks[6].y,
      middle |-> landmarks[12].y < landmarks[10].y,
      ring   |-> landmarks[16].y < landmarks[14].y,
      pinky  |-> landmarks[20].y < landmarks[18].y]

\* distanceFromCenter <= CIRCLE_RADIUS, both sides squared and scaled by 100
WristInCircle(landmarks) ==
  LET dx == landmarks[0].x * CANVAS_WIDTH - 100 * (CANVAS_WIDTH \div 2)
      dy == landmarks[0].y * CANVAS_HEIGHT - 100 * (CANVAS_HEIGHT \div 2)
  IN dx * dx + dy * dy <= (100 * CIRCLE_RADIUS) * (100 * CIRCLE_RADIUS)

CountTrue(fs) ==
  Cardinality({f \in DOMAIN fs : fs[f]})

\* HandState; fingerStates is meaningful only when hasFingerStates
NoHandState ==
  [isInCircle |-> FALSE, fingerCount |-> 0, confidence |-> 0, isStable |-> FALSE,
   hasFingerStates |-> FALSE, fingerStates |-> FistPose]

\* the hand state hands.onResults computes for one result
\* a hand state that reports a hand inside the circle as stable
onResultsHandStateMarksStable(multiHandLandmarks) ==
  IF Len(multiHandLandmarks) > 0 /\ WristInCircle(multiHandLandmarks[1])
  THEN LET fingerStates == detectFingerStates(multiHandLandmarks[1])
       IN [isInCircle |-> TRUE, fingerCount |-> CountTrue(fingerStates),
           confidence |-> CONFIDENCE_IN_CIRCLE, isStable |-> TRUE,
           hasFingerStates |-> TRUE, fingerStates |-> fingerStates]
  ELSE NoHandState

onResultsHandState(multiHandLandmarks) ==
  IF Len(multiHandLandmarks) > 0 /\ WristInCircle(multiHandLandmarks[1])
  THEN LET fingerStates == detectFingerStates(multiHandLandmarks[1])
       IN [isInCircle |-> TRUE, fingerCount |-> CountTrue(fingerStates),
           confidence |-> CONFIDENCE_IN_CIRCLE, isStable |-> FALSE,
           hasFingerStates |-> TRUE, fingerStates |-> fingerStates]
  ELSE NoHandState

\* a comparison that leaves the pinky out
isHandStateStableIgnoresPinky(current, previous) ==
  IF previous = <<>> \/ ~current.hasFingerStates \/ ~previous[1].hasFingerStates
  THEN FALSE
  ELSE /\ current.isInCircle = previous[1].isInCircle
       /\ current.fingerStates.thumb = previous[1].fingerStates.thumb
       /\ current.fingerStates.index = previous[1].fingerStates.index
       /\ current.fingerStates.middle = previous[1].fingerStates.middle
       /\ current.fingerStates.ring = previous[1].fingerStates.ring
       /\ Abs(current.confidence - previous[1].confidence) < CONFIDENCE_TOLERANCE

\* previous is <<>> for null, <<handState>> otherwise
isHandStateStable(current, previous) ==
  IF previous = <<>> \/ ~current.hasFingerStates \/ ~previous[1].hasFingerStates
  THEN FALSE
  ELSE /\ current.isInCircle = previous[1].isInCircle
       /\ current.fingerStates.thumb = previous[1].fingerStates.thumb
       /\ current.fingerStates.index = previous[1].fingerStates.index
       /\ current.fingerStates.middle = previous[1].fingerStates.middle
       /\ current.fingerStates.ring = previous[1].fingerStates.ring
       /\ current.fingerStates.pinky = previous[1].fingerStates.pinky
       /\ Abs(current.confidence - previous[1].confidence) < CONFIDENCE_TOLERANCE

isCorrectGesture(hs, targetLetter) ==
  IF ~hs.hasFingerStates THEN FALSE
  ELSE IF targetLetter \notin DOMAIN gesturePatterns THEN FALSE
  ELSE LET targetFingerGuide == gesturePatterns[targetLetter]
       IN /\ hs.fingerStates.thumb = targetFingerGuide.thumb
          /\ hs.fingerStates.index = targetFingerGuide.index
          /\ hs.fingerStates.middle = targetFingerGuide.middle
          /\ hs.fingerStates.ring = targetFingerGuide.ring
          /\ hs.fingerStates.pinky = targetFingerGuide.pinky

\* ------------------------------------------- counter-based camera variants
\* src/unnamed/part_001 and part_002 are CameraComponent versions that
\* classify every frame into a letter and count consecutive detections.
Variants == {"part_001", "part_002"}

\* Scores are kept in five-hundredths: (matches / 5) * confidence with the
\* confidence in hundredths is matches * confidence.  Two letters have equal
\* scores in the code exactly when they have the same number of matches and
\* the same weight, so the integer comparison orders them as the code does.
AcceptThreshold(v) == IF v = "part_001" THEN 350 ELSE 150

\* landmark coordinates of the variants are kept in thousandths of the frame
ExtendMargin(v) == IF v = "part_001" THEN 20 ELSE 10

fingerTips == <<4, 8, 12, 16, 20>>
fingerBases == <<2, 5, 9, 13, 17>>
fingerNames == <<"Thumb", "Index", "Middle", "Ring", "Pinky">>

Gesture(p, c) == [pattern |-> p, confidence |-> c]

gestures ==
  "A" :> Gesture(<<FALSE, FALSE, FALSE, FALSE, FALSE>>, 80) @@
  "B" :> Gesture(<<FALSE, TRUE,  TRUE,  TRUE,  TRUE>>,  85) @@
  "C" :> Gesture(<<FALSE, FALSE, FALSE, FALSE, FALSE>>, 70) @@
  "D" :> Gesture(<<FALSE, TRUE,  FALSE, FALSE, FALSE>>, 90) @@
  "E" :> Gesture(<<FALSE, FALSE, FALSE, FALSE, FALSE>>, 80) @@
  "F" :> Gesture(<<FALSE, TRUE,  TRUE,  FALSE, FALSE>>, 85) @@
  "G" :> Gesture(<<FALSE, TRUE,  FALSE, FALSE, FALSE>>, 90) @@
  "H" :> Gesture(<<FALSE, TRUE,  TRUE,  FALSE, FALSE>>, 85) @@
  "I" :> Gesture(<<FALSE, FALSE, FALSE, FALSE, TRUE>>,  90) @@
  "J" :> Gesture(<<FALSE, FALSE, FALSE, FALSE, TRUE>>,  90) @@
  "K" :> Gesture(<<FALSE, TRUE,  TRUE,  FALSE, FALSE>>, 85) @@
  "L" :> Gesture(<<TRUE,  TRUE,  FALSE, FALSE, FALSE>>, 90) @@
  "M" :> Gesture(<<FALSE, FALSE, FALSE, FALSE, FALSE>>, 70) @@
  "N" :> Gesture(<<FALSE, FALSE, FALSE, FALSE, FALSE>>, 70) @@
  "O" :> Gesture(<<FALSE, FALSE, FALSE, FALSE, FALSE>>, 70) @@
  "P" :> Gesture(<<FALSE, FALSE, TRUE,  FALSE, FALSE>>, 80) @@
  "Q" :> Gesture(<<FALSE, TRUE,  FALSE, FALSE, FALSE>>, 80) @@
  "R" :> Gesture(<<FALSE, TRUE,  TRUE,  FALSE, FALSE>>, 80) @@
  "S" :> Gesture(<<FALSE, FALSE, FALSE, FALSE, FALSE>>, 80) @@
  "T" :> Gesture(<<FALSE, FALSE, FALSE, FALSE, FALSE>>, 70) @@
  "U" :> Gesture(<<FALSE, TRUE,  TRUE,  FALSE, FALSE>>, 85) @@
  "V" :> Gesture(<<FALSE, TRUE,  TRUE,  FALSE, FALSE>>, 85) @@
  "W" :> Gesture(<<FALSE, TRUE,  TRUE,  TRUE,  FALSE>>, 90) @@
  "X" :> Gesture(<<FALSE, TRUE,  FALSE, FALSE, FALSE>>, 80) @@
  "Y" :> Gesture(<<FALSE, FALSE, FALSE, FALSE, TRUE>>,  90) @@
  "Z" :> Gesture(<<FALSE, TRUE,  FALSE, FALSE, FALSE>>, 80)

\* "Require 3 consistent detections before triggering", then a 1000 ms timer
REQUIRED_DETECTIONS == 3
CONFIRM_DELAY == 1000

\* fingerStates[index].extended of classifyHandGesture
extendedFingers(landmarks, v) ==
  [k \in 1..5 |->
     landmarks[fingerTips[k]].y < landmarks[fingerBases[k]].y - ExtendMargin(v)]

\* number of positions in which pattern and extended agree
patternMatches(pattern, extended) ==
  Cardinality({k \in 1..5 : pattern[k] = extended[k]})

\* the letterFeedback a pattern collects: one entry per mismatching finger
RECURSIVE letterFeedbackFrom(_, _, _)
letterFeedbackFrom(pattern, extended, k) ==
  IF k > 5 THEN <<>>
  ELSE IF pattern[k] = extended[k]
       THEN letterFeedbackFrom(pattern, extended, k + 1)
       ELSE <<[say |-> IF pattern[k] THEN "Extend" ELSE "Close",
               finger |-> fingerNames[k]]>>
            \o letterFeedbackFrom(pattern, extended, k + 1)

PositioningFeedback ==
  <<[say |-> "Position your hand in the center", finger |-> ""],
    [say |-> "Make sure all fingers are visible", finger |-> ""]>>

\* a matching loop in which a later letter with an equal score wins
RECURSIVE matchingLoopLastWins(_, _, _)
matchingLoopLastWins(extended, i, best) ==
  IF i > Len(UpperCase) THEN best
  ELSE LET letter == UpperCase[i]
           finalScore == patternMatches(gestures[letter].pattern, extended)
                           * gestures[letter].confidence
       IN matchingLoopLastWins(extended, i + 1,
            IF finalScore >= best.bestScore
            THEN [bestMatch |-> letter, bestScore |-> finalScore,
                  feedback |-> letterFeedbackFrom(gestures[letter].pattern, extended, 1)]
            ELSE best)

\* the loop over Object.entries(gestures), from the i-th letter on, with
\* best = [bestMatch, bestScore, feedback] so far
RECURSIVE matchingLoop(_, _, _)
matchingLoop(extended, i, best) ==
  IF i > Len(UpperCase) THEN best
  ELSE LET letter == UpperCase[i]
           finalScore == patternMatches(gestures[letter].pattern, extended)
                           * gestures[letter].confidence
       IN matchingLoop(extended, i + 1,
            IF finalScore > best.bestScore
            THEN [bestMatch |-> letter, bestScore |-> finalScore,
                  feedback |-> letterFeedbackFrom(gestures[letter].pattern, extended, 1)]
            ELSE best)

\* bestMatch, bestScore and feedback at the end of the loop
bestOf(landmarks, v) ==
  matchingLoop(extendedFingers(landmarks, v), 1,
               [bestMatch |-> "A", bestScore |-> 0, feedback |-> <<>>])

classifyHandGesture(landmarks, v) ==
  LET best == bestOf(landmarks, v)
  IN [letter |-> IF best.bestScore > AcceptThreshold(v) THEN best.bestMatch ELSE "A",
      feedback |-> IF best.bestScore > AcceptThreshold(v)
                   THEN best.feedback ELSE PositioningFeedback]

\* A hand whose five fingers are posed as ext (thumb to pinky): an extended
\* tip is well above its base, a curled one below it.
PosedHand(ext) ==
  [i \in 0..20 |->
     IF \E k \in 1..5 : fingerTips[k] = i
     THEN LET k == CHOOSE k \in 1..5 : fingerTips[k] = i
          IN [x |-> 400 + 50 * k, y |-> IF ext[k] THEN 350 ELSE 550]
     ELSE [x |-> 500, y |-> 500]]

\* a hand with the index tip 15 thousandths above its base and the other
\* fingers curled
HalfRaisedIndex ==
  [PosedHand(<<FALSE, FALSE, FALSE, FALSE, FALSE>>) EXCEPT ![8] = [x |-> 500, y |-> 485]]

FingerVectors == [1..5 -> BOOLEAN]

\* hands given to classifyHandGesture: every finger vector, and a hand on
\* which the two variants disagree
ClassifierInputs == {PosedHand(e) : e \in FingerVectors} \cup {HalfRaisedIndex}

\* results.multiHandLandmarks delivered to a mounted variant: no hand, a
\* fist, a pointing hand, an open hand, the half-raised index
VariantFrames ==
  { <<>>,
    <<PosedHand(<<FALSE, FALSE, FALSE, FALSE, FALSE>>)>>,
    <<PosedHand(<<FALSE, TRUE, FALSE, FALSE, FALSE>>)>>,
    <<PosedHand(<<TRUE, TRUE, TRUE, TRUE, TRUE>>)>>,
    <<HalfRaisedIndex>> }

\* classifyHandGesture of every variant on the hand of every frame, tabulated
classified ==
  [v \in Variants |->
     [frame \in VariantFrames \ {<<>>} |-> classifyHandGesture(frame[1], v)]]

\* ------------------------------------------------- evaluation service
\* The gesture evaluation service listed in src/README.md.  Scores are kept
\* in hundredths.  Of an ASLPattern only the five finger booleans are kept;
\* description and tips do not enter any score.
patterns ==
  "A" :> FingerGuide(TRUE , FALSE, FALSE, FALSE, FALSE) @@
  "B" :> FingerGuide(FALSE, TRUE , TRUE , TRUE , TRUE ) @@
  "C" :> FingerGuide(FALSE, FALSE, FALSE, FALSE, FALSE) @@
  "D" :> FingerGuide(FALSE, TRUE , FALSE, FALSE, FALSE) @@
  "E" :> FingerGuide(FALSE, FALSE, FALSE, FALSE, FALSE) @@
  "F" :> FingerGuide(TRUE , TRUE , TRUE , FALSE, FALSE) @@
  "G" :> FingerGuide(FALSE, TRUE , FALSE, FALSE, FALSE) @@
  "H" :> FingerGuide(FALSE, TRUE , TRUE , FALSE, FALSE) @@
  "I" :> FingerGuide(FALSE, FALSE, FALSE, FALSE, TRUE ) @@
  "J" :> FingerGuide(FALSE, FALSE, FALSE, FALSE, TRUE ) @@
  "K" :> FingerGuide(FALSE, TRUE , TRUE , FALSE, FALSE) @@
  "L" :> FingerGuide(TRUE , TRUE , FALSE, FALSE, FALSE) @@
  "M" :> FingerGuide(FALSE, FALSE, FALSE, FALSE, FALSE) @@
  "N" :> FingerGuide(FALSE, FALSE, FALSE, FALSE, FALSE) @@
  "O" :> FingerGuide(FALSE, FALSE, FALSE, FALSE, FALSE) @@
  "P" :> FingerGuide(FALSE, FALSE, TRUE , FALSE, FALSE) @@
  "Q" :> FingerGuide(FALSE, TRUE , FALSE, FALSE, FALSE) @@
  "R" :> FingerGuide(FALSE, TRUE , TRUE , FALSE, FALSE) @@
  "S" :> FingerGuide(FALSE, FALSE, FALSE, FALSE, FALSE) @@
  "T" :> FingerGuide(FALSE, FALSE, FALSE, FALSE, FALSE) @@
  "U" :> FingerGuide(FALSE, TRUE , TRUE , FALSE, FALSE) @@
  "V" :> FingerGuide(FALSE, TRUE , TRUE , FALSE, FALSE) @@
  "W" :> FingerGuide(FALSE, TRUE , TRUE , TRUE , FALSE) @@
  "X" :> FingerGuide(FALSE, TRUE , FALSE, FALSE, FALSE) @@
  "Y" :> FingerGuide(TRUE , FALSE, FALSE, FALSE, TRUE ) @@
  "Z" :> FingerGuide(FALSE, TRUE , FALSE, FALSE, FALSE)

\* a lookup that does not upper-case the letter
getExpectedASLPatternCaseSensitive(letter) ==
  IF letter \in DOMAIN patterns THEN patterns[letter] ELSE patterns["A"]

\* patterns[letter.toUpperCase()] || patterns['A']
getExpectedASLPattern(letter) ==
  IF UpperChar(letter) \in DOMAIN patterns
  THEN patterns[UpperChar(letter)]
  ELSE patterns["A"]

fingers == <<"thumb", "index", "middle", "ring", "pinky">>

analyzeFingerStates(fingerStates) ==
  [f \in {fingers[k] : k \in 1..5} |->
     [extended |-> fingerStates[f].extended,
      position |-> IF fingerStates[f].extended THEN "extended" ELSE "closed"]]

\* the fingers counted by the forEach of compareWithExpectedPattern
correctMatchesOf(analysis, expected) ==
  Cardinality({k \in 1..5 : analysis[fingers[k]].extended = expected[fingers[k]]})

\* a score without the bonus points for 3 and more matches
compareWithExpectedPatternNoBonus(analysis, expected) ==
  (100 * correctMatchesOf(analysis, expected)) \div 5

compareWithExpectedPattern(analysis, expected) ==
  LET correctMatches == correctMatchesOf(analysis, expected)
      totalFingers == 5
      baseScore == (100 * correctMatches) \div totalFingers
  IN IF correctMatches >= 4 THEN Min(baseScore + 25, 100)
     ELSE IF correctMatches >= 3 THEN Min(baseScore + 15, 100)
     ELSE baseScore

\* the landmark indices analyzeFingerPositions reads
fingerMids == <<3, 6, 10, 14, 18>>

\* squared 3D distance of two landmarks
Dist2(a, b) ==
  (a.x - b.x) * (a.x - b.x) + (a.y - b.y) * (a.y - b.y) + (a.z - b.z) * (a.z - b.z)

\* tipToBase > midToBase * 1.2, both sides squared and scaled by 100
analyzeFingerPositions(landmarks) ==
  [f \in {fingers[k] : k \in 1..5} |->
     LET k == CHOOSE k \in 1..5 : fingers[k] = f
         isExtended == 100 * Dist2(landmarks[fingerTips[k]], landmarks[fingerBases[k]])
                         > 144 * Dist2(landmarks[fingerMids[k]], landmarks[fingerBases[k]])
     IN [extended |-> isExtended,
         position |-> IF isExtended THEN "extended" ELSE "closed"]]

\* reading landmarks[i].x of a missing landmark throws a TypeError
AnalysisThrows(data) ==
  /\ ~data.hasFingerStates
  /\ \E k \in 1..5 : \/ fingerTips[k] \notin DOMAIN data.landmarks
                     \/ fingerBases[k] \notin DOMAIN data.landmarks
                     \/ fingerMids[k] \notin DOMAIN data.landmarks

\* fingerAnalysis of enhancedMockLLMEvaluation
fingerAnalysisOf(data) ==
  IF data.hasFingerStates THEN analyzeFingerStates(data.fingerStates)
  ELSE analyzeFingerPositions(data.landmarks)

Truthy(flag) == flag = <<TRUE>>

GoodOrientation(handOrientation) == handOrientation \in {"up", "right"}

\* suggestions, improvements and reasoning that the forEach of
\* generateEnhancedFeedback collects for the fingers k..5.  A sentence is
\* kept as a record of its wording and the finger it names.
RECURSIVE fingerFeedbackFrom(_, _, _)
fingerFeedbackFrom(analysis, expected, k) ==
  IF k > 5 THEN [suggestions |-> <<>>, improvements |-> <<>>, reasoning |-> <<>>]
  ELSE LET actual == analysis[fingers[k]].extended
           expectedExtended == expected[fingers[k]]
           fingerName == fingerNames[k]
           rest == fingerFeedbackFrom(analysis, expected, k + 1)
       IN IF actual = expectedExtended
          THEN [rest EXCEPT !.reasoning =
                  <<[say |-> "is correctly", finger |-> fingerName]>> \o @]
          ELSE [suggestions |->
                  (IF expectedExtended /\ ~actual
                   THEN <<[say |-> "Extend", finger |-> fingerName]>>
                   ELSE IF ~expectedExtended /\ actual
                        THEN <<[say |-> "Close", finger |-> fingerName]>>
                        ELSE <<>>) \o rest.suggestions,
                improvements |->
                  (IF expectedExtended /\ ~actual
                   THEN <<[say |-> "tip or pointing up", finger |-> fingerName]>>
                   ELSE IF ~expectedExtended /\ actual
                        THEN <<[say |-> "Bend down", finger |-> fingerName]>>
                        ELSE <<>>) \o rest.improvements,
                reasoning |->
                  <<[say |-> "should be", finger |-> fingerName]>> \o rest.reasoning]

OrientationHint == [say |-> "Rotate your hand to face the camera", finger |-> ""]

\* a feedback that puts the orientation hint in front of the finger suggestions
generateEnhancedFeedbackHintFirst(analysis, expected, target, handOrientation) ==
  LET perFinger == fingerFeedbackFrom(analysis, expected, 1)
      turned == handOrientation # "" /\ ~GoodOrientation(handOrientation)
  IN [suggestions |-> (IF turned THEN <<OrientationHint>> ELSE <<>>)
                        \o perFinger.suggestions,
      reasoning |-> <<[say |-> "Analyzing", finger |-> target]>> \o perFinger.reasoning,
      improvements |-> perFinger.improvements]

generateEnhancedFeedback(analysis, expected, target, handOrientation) ==
  LET perFinger == fingerFeedbackFrom(analysis, expected, 1)
      correctFingers == 5 - Len(perFinger.suggestions)
      totalFingers == 5
      overall == IF 10 * correctFingers >= 8 * totalFingers THEN "excellent attempt"
                 ELSE IF 10 * correctFingers >= 6 * totalFingers THEN "close"
                 ELSE "needs significant improvement"
      turned == handOrientation # "" /\ ~GoodOrientation(handOrientation)
  IN [suggestions |-> perFinger.suggestions
                        \o (IF turned THEN <<OrientationHint>> ELSE <<>>),
      reasoning |-> <<[say |-> "Analyzing", finger |-> target]>>
                      \o perFinger.reasoning
                      \o <<[say |-> overall, finger |-> ""]>>
                      \o (IF handOrientation # "" /\ GoodOrientation(handOrientation)
                          THEN <<[say |-> "orientation looks good", finger |-> ""]>>
                          ELSE <<>>),
      improvements |-> perFinger.improvements
                         \o (IF turned
                             THEN <<[say |-> "palm visible to the camera", finger |-> ""]>>
                             ELSE <<>>)]

\* the sentences enhancedMockLLMEvaluation appends to the reasoning
stabilityReasoning(data) ==
  (IF Truthy(data.isStable) /\ data.stabilityScore # 0
   THEN <<[say |-> IF data.stabilityScore > 80 THEN "very stable" ELSE "stable",
           finger |-> ""]>>
   ELSE IF data.isStable = <<FALSE>>
        THEN <<[say |-> "movement detected", finger |-> ""]>>
        ELSE <<>>)
  \o (IF data.handOrientation # ""
      THEN <<[say |-> "orientation is", finger |-> data.handOrientation]>>
      ELSE <<>>)

\* an evaluation that adds the bonuses without the cap at 1.0
enhancedMockLLMEvaluationUncapped(data) ==
  LET fingerAnalysis == fingerAnalysisOf(data)
      expectedPattern == getExpectedASLPattern(data.targetLetter)
      score == compareWithExpectedPattern(fingerAnalysis, expectedPattern)
      feedback == generateEnhancedFeedback(fingerAnalysis, expectedPattern,
                                           data.targetLetter, data.handOrientation)
      stabilityBonus == IF Truthy(data.isStable) /\ data.stabilityScore > 80 THEN 15
                        ELSE IF Truthy(data.isStable) /\ data.stabilityScore > 60 THEN 10
                        ELSE 0
      orientationBonus == IF GoodOrientation(data.handOrientation) THEN 5 ELSE 0
      finalScore == score + stabilityBonus + orientationBonus
  IN [isCorrect |-> finalScore > 65,
      confidence |-> finalScore,
      feedback |-> feedback.suggestions,
      reasoning |-> feedback.reasoning \o stabilityReasoning(data),
      suggestedImprovements |-> feedback.improvements]

enhancedMockLLMEvaluation(data) ==
  LET fingerAnalysis == fingerAnalysisOf(data)
      expectedPattern == getExpectedASLPattern(data.targetLetter)
      score == compareWithExpectedPattern(fingerAnalysis, expectedPattern)
      feedback == generateEnhancedFeedback(fingerAnalysis, expectedPattern,
                                           data.targetLetter, data.handOrientation)
      stabilityBonus == IF Truthy(data.isStable) /\ data.stabilityScore > 80 THEN 15
                        ELSE IF Truthy(data.isStable) /\ data.stabilityScore > 60 THEN 10
                        ELSE 0
      orientationBonus == IF GoodOrientation(data.handOrientation) THEN 5 ELSE 0
      finalScore == Min(score + stabilityBonus + orientationBonus, 100)
  IN [isCorrect |-> finalScore > 65,
      confidence |-> finalScore,
      feedback |-> feedback.suggestions,
      reasoning |-> feedback.reasoning \o stabilityReasoning(data),
      suggestedImprovements |-> feedback.improvements]

\* a result that rates a failed evaluation as an even chance
NeutralResult ==
  [isCorrect |-> FALSE,
   confidence |-> 50,
   feedback |-> <<>>,
   reasoning |-> <<>>,
   suggestedImprovements |-> <<>>]

\* what the catch block of evaluateHandGesture returns
FailureResult ==
  [isCorrect |-> FALSE,
   confidence |-> 0,
   feedback |-> <<[say |-> "Unable to evaluate gesture", finger |-> ""]>>,
   reasoning |-> <<[say |-> "Evaluation failed", finger |-> ""]>>,
   suggestedImprovements |->
     <<[say |-> "Try again with better hand positioning", finger |-> ""]>>]

\* the value evaluateHandGesture resolves to; the prompt it builds first is
\* not used
evaluateHandGesture(data) ==
  IF AnalysisThrows(data) THEN FailureResult ELSE enhancedMockLLMEvaluation(data)

\* target letters handed to the service: the 26 letters, lower-case
\* letters, a digit, the empty string, dotless i and long s
ServiceTargets ==
  {UpperCase[i] : i \in 1..26} \cup {"a", "e", "1", "", DotlessI, LongS}

\* data.fingerStates for every combination of extended fingers
ServiceFingerStates ==
  {[f \in {fingers[k] : k \in 1..5} |-> [extended |-> e[f]]] :
     e \in [{fingers[k] : k \in 1..5} -> BOOLEAN]}

\* data.landmarks of a hand whose fingers are extended as ext says, in
\* thousandths: an extended tip lies twice as far from the base as the middle
\* joint, a closed tip lies nearer to the base than the middle joint
ServiceHand(ext) ==
  [i \in 0..20 |->
     IF \E k \in 1..5 : i \in {fingerTips[k], fingerMids[k], fingerBases[k]}
     THEN LET k == CHOOSE k \in 1..5 : i \in {fingerTips[k], fingerMids[k], fingerBases[k]}
          IN IF i = fingerBases[k] THEN [x |-> 100 * k, y |-> 500, z |-> 0]
             ELSE IF i = fingerMids[k] THEN [x |-> 100 * k, y |-> 470, z |-> 0]
             ELSE IF ext[fingers[k]] THEN [x |-> 100 * k, y |-> 440, z |-> 0]
             ELSE [x |-> 100 * k, y |-> 480, z |-> 10]
     ELSE [x |-> 300, y |-> 600, z |-> 0]]

\* a landmark array cut off after index n
Truncated(landmarks, n) == [i \in 0..n |-> landmarks[i]]

AllClosed == [f \in {fingers[k] : k \in 1..5} |-> FALSE]

\* data.landmarks without finger states: a fist, a pointing hand, an open
\* hand, an array that lacks the last landmark, an array that ends before
\* the pinky and an empty array
ServiceLandmarks ==
  {ServiceHand(AllClosed),
   ServiceHand([AllClosed EXCEPT !.index = TRUE]),
   ServiceHand([f \in {fingers[k] : k \in 1..5} |-> TRUE]),
   Truncated(ServiceHand(AllClosed), 19),
   Truncated(ServiceHand(AllClosed), 17),
   Truncated(ServiceHand(AllClosed), -1)}

\* data.isStable: absent, true or false
StableFlags == {<<>>, <<TRUE>>, <<FALSE>>}

\* data.stabilityScore in hundredths, 0 when absent
StabilityScores == {0, 60, 70, 80, 90}

\* data.handOrientation, "" when absent
Orientations == {"", "up", "right", "left"}

\* ------------------------------------------------------------------- state
VARIABLES
  learningState,        \* page: [userName, currentLetterIndex, isLearning]
  isProcessingRef,      \* page: guard flag of handleNextLetter
  guardTimers,          \* page: remaining delays of the pending setTimeout calls
  renderError,          \* the React tree was torn down by a throwing render
  handState,            \* camera: HandState
  lastHandStateRef,     \* camera: <<>> or <<HandState>>
  stableStartTimeRef,   \* camera: NULL or now - stableStartTimeRef.current
  isProcessing,         \* camera: cooldown flag
  processingTimeoutRef, \* camera: NULL or remaining delay of the cooldown timer
  effectPending,        \* camera: the stability effect is scheduled
  poseHeldFor,          \* observer: how long the latest in-circle pose has been shown
  prevFingers,          \* observer: <<>> or finger states of the in-circle frame before the latest
  sinceConfirm,         \* observer: time since the camera last called onCorrectGesture
  confirmGap,           \* observer: NULL or time between its last two calls of onCorrectGesture
  advances,             \* observer: accepted handleNextLetter calls since the name was submitted
  heldAdvanced,         \* observer: the pose shown has been held since a confirmation of it advanced the lesson
  lastOp,               \* observer: what the last step did with handleNextLetter
  variant,              \* which counter-based variant is mounted, NoVariant under Spec
  targetLetter,         \* variant: the targetLetter prop
  detectedLetter,       \* variant: state, NoLetter for null
  confidence,           \* variant: state, in tenths
  isCorrect,            \* variant: state
  detectionCount,       \* variant: state
  lastDetectedLetter,   \* variant: state, NoLetter for null
  fingerFeedback,       \* variant: state (part_001 only)
  callback,             \* variant: what the registered onResults closure captured
  effectDue,            \* variant: the camera effect's dependencies have changed
  confirmTimeouts,      \* variant: remaining delays of the pending confirmation timers
  multiHandLandmarks,   \* observer: the result delivered last to the variant
  gestureResult,        \* classifier: NoResult or what classifyHandGesture returned
  targetStreak,         \* observer: latest frames in a row classified as the target letter
  streakCancelled,      \* observer: no hand or a new target since the last run of 3 target frames
  frameParity,          \* observer: parity of the number of results delivered
  gestureData,          \* service: the HandGestureData under evaluation
  evaluationResult,     \* service: <<>> or <<LLMEvaluationResult>>
  stableResult,         \* camera: <<>> or <<what a call of isHandStateStable returned>>
  detectLandmarks,      \* camera: <<>> or the landmarks handed to detectFingerStates
  detectedFingers,      \* camera: <<>> or <<what detectFingerStates returned>>
  cameras,              \* camera start-up: the CameraComponent instances mounted so far
  matchScore            \* service: NULL or the score compareWithExpectedPattern returned

pageVars == <<learningState, isProcessingRef, guardTimers>>
camVars == <<handState, lastHandStateRef, stableStartTimeRef, isProcessing,
             processingTimeoutRef, effectPending>>
obsVars == <<poseHeldFor, prevFingers, sinceConfirm, confirmGap, advances, heldAdvanced,
                lastOp>>
lessonVars == <<learningState, isProcessingRef, guardTimers, renderError,
                handState, lastHandStateRef, stableStartTimeRef, isProcessing,
                processingTimeoutRef, effectPending,
                poseHeldFor, prevFingers, sinceConfirm, confirmGap, advances, heldAdvanced,
                lastOp>>
variantVars == <<variant, targetLetter, detectedLetter, confidence, isCorrect,
                 detectionCount, lastDetectedLetter, fingerFeedback, callback,
                 effectDue, confirmTimeouts, multiHandLandmarks, gestureResult,
                 targetStreak, streakCancelled, frameParity>>
serviceVars == <<gestureData, matchScore, evaluationResult>>
detectVars == <<detectLandmarks, detectedFingers>>
callVars == <<stableResult, detectVars, cameras>>
vars == <<lessonVars, variantVars, serviceVars, callVars>>

\* ------------------------------------------------------------------- page
IdleLesson == [userName |-> <<>>, currentLetterIndex |-> 0, isLearning |-> FALSE]

\* userName[currentLetterIndex] || ''   (the index is 0-based in the code)
currentLetter(ls) ==
  IF ls.currentLetterIndex + 1 \in 1..Len(ls.userName)
  THEN ls.userName[ls.currentLetterIndex + 1]
  ELSE ""

\* Home renders <CameraComponent> when userName is non-empty and isLearning
CameraMounted(ls) == ls.userName # <<>> /\ ls.isLearning

\* CameraComponent's render calls Object.entries(gesturePatterns[targetLetter])
RenderThrows(ls) ==
  CameraMounted(ls) /\ currentLetter(ls) \notin DOMAIN gesturePatterns

handleNameSubmit(name) ==
  [userName |-> toUpperCase(name), currentLetterIndex |-> 0, isLearning |-> TRUE]

\* handleNextLetter variants with one plausible slip each
handleNextLetterOffByOne(p) ==
  IF ~p.ls.isLearning \/ p.ref
  THEN [ls |-> p.ls, ref |-> p.ref, timers |-> p.timers, accepted |-> FALSE]
  ELSE [ls |-> IF p.ls.currentLetterIndex < Len(p.ls.userName)
               THEN [p.ls EXCEPT !.currentLetterIndex = @ + 1]
               ELSE [p.ls EXCEPT !.isLearning = FALSE, !.currentLetterIndex = 0],
        ref |-> TRUE,
        timers |-> Append(p.timers, GUARD_DELAY),
        accepted |-> TRUE]

handleNextLetterSkipsOne(p) ==
  IF ~p.ls.isLearning \/ p.ref
  THEN [ls |-> p.ls, ref |-> p.ref, timers |-> p.timers, accepted |-> FALSE]
  ELSE [ls |-> IF p.ls.currentLetterIndex < Len(p.ls.userName) - 1
               THEN [p.ls EXCEPT !.currentLetterIndex = Min(@ + 2, Len(p.ls.userName) - 1)]
               ELSE [p.ls EXCEPT !.isLearning = FALSE, !.currentLetterIndex = 0],
        ref |-> TRUE,
        timers |-> Append(p.timers, GUARD_DELAY),
        accepted |-> TRUE]

handleNextLetterNoGuard(p) ==
  IF ~p.ls.isLearning
  THEN [ls |-> p.ls, ref |-> p.ref, timers |-> p.timers, accepted |-> FALSE]
  ELSE [ls |-> IF p.ls.currentLetterIndex < Len(p.ls.userName) - 1
               THEN [p.ls EXCEPT !.currentLetterIndex = @ + 1]
               ELSE [p.ls EXCEPT !.isLearning = FALSE, !.currentLetterIndex = 0],
        ref |-> TRUE,
        timers |-> Append(p.timers, GUARD_DELAY),
        accepted |-> TRUE]

\* handleNextLetter on the page state p = [ls, ref, timers]; accepted tells
\* whether the call went past the guard
handleNextLetter(p) ==
  IF ~p.ls.isLearning \/ p.ref
  THEN [ls |-> p.ls, ref |-> p.ref, timers |-> p.timers, accepted |-> FALSE]
  ELSE [ls |-> IF p.ls.currentLetterIndex < Len(p.ls.userName) - 1
               THEN [p.ls EXCEPT !.currentLetterIndex = @ + 1]
               ELSE [p.ls EXCEPT !.isLearning = FALSE, !.currentLetterIndex = 0],
        ref |-> TRUE,
        timers |-> Append(p.timers, GUARD_DELAY),
        accepted |-> TRUE]

\* handleReset that forgets to stop the lesson
handleResetKeepsLearning ==
  [userName |-> <<>>, currentLetterIndex |-> 0, isLearning |-> TRUE]

handleReset ==
  [userName |-> <<>>, currentLetterIndex |-> 0, isLearning |-> FALSE]

Page == [ls |-> learningState, ref |-> isProcessingRef, timers |-> guardTimers,
         accepted |-> FALSE]

\* ----------------------------------------------------------------- camera
\* stabilityEffect variants with one plausible slip each
stabilityEffectNoPatternCheck(hs, previous, c, p) ==
  LET quiet == [start |-> c.start, processing |-> c.processing, timeout |-> c.timeout,
                confirmed |-> FALSE, page |-> p]
  IN
  IF ~hs.isInCircle \/ c.processing THEN quiet
  ELSE
    LET isStable == isHandStateStable(hs, previous) IN
    IF isStable
    THEN LET stableDuration == IF c.start = NULL THEN 0 ELSE c.start
         IN IF stableDuration >= STABILITY_DURATION
            THEN [start |-> NULL, processing |-> TRUE, timeout |-> PROCESSING_COOLDOWN,
                  confirmed |-> TRUE, page |-> handleNextLetter(p)]
            ELSE [quiet EXCEPT !.start = stableDuration]
    ELSE [quiet EXCEPT !.start = NULL]

stabilityEffectNoCooldown(hs, previous, c, p) ==
  LET quiet == [start |-> c.start, processing |-> c.processing, timeout |-> c.timeout,
                confirmed |-> FALSE, page |-> p]
  IN
  IF ~hs.isInCircle THEN quiet
  ELSE
    LET isStable == isHandStateStable(hs, previous) IN
    IF isStable
    THEN LET stableDuration == IF c.start = NULL THEN 0 ELSE c.start
         IN IF stableDuration >= STABILITY_DURATION /\ isCorrectGesture(hs, currentLetter(p.ls))
            THEN [start |-> NULL, processing |-> TRUE, timeout |-> PROCESSING_COOLDOWN,
                  confirmed |-> TRUE, page |-> handleNextLetter(p)]
            ELSE [quiet EXCEPT !.start = stableDuration]
    ELSE [quiet EXCEPT !.start = NULL]

stabilityEffectNoTimeout(hs, previous, c, p) ==
  LET quiet == [start |-> c.start, processing |-> c.processing, timeout |-> c.timeout,
                confirmed |-> FALSE, page |-> p]
  IN
  IF ~hs.isInCircle \/ c.processing THEN quiet
  ELSE
    LET isStable == isHandStateStable(hs, previous) IN
    IF isStable
    THEN LET stableDuration == IF c.start = NULL THEN 0 ELSE c.start
         IN IF stableDuration >= STABILITY_DURATION /\ isCorrectGesture(hs, currentLetter(p.ls))
            THEN [start |-> NULL, processing |-> TRUE, timeout |-> NULL,
                  confirmed |-> TRUE, page |-> handleNextLetter(p)]
            ELSE [quiet EXCEPT !.start = stableDuration]
    ELSE [quiet EXCEPT !.start = NULL]

\* an effect that keeps the stable start time when it confirms
stabilityEffectKeepsStart(hs, previous, c, p) ==
  LET quiet == [start |-> c.start, processing |-> c.processing, timeout |-> c.timeout,
                confirmed |-> FALSE, page |-> p]
  IN
  IF ~hs.isInCircle \/ c.processing THEN quiet
  ELSE
    LET isStable == isHandStateStable(hs, previous) IN
    IF isStable
    THEN LET stableDuration == IF c.start = NULL THEN 0 ELSE c.start
         IN IF stableDuration >= STABILITY_DURATION /\ isCorrectGesture(hs, currentLetter(p.ls))
            THEN [start |-> stableDuration, processing |-> TRUE,
                  timeout |-> PROCESSING_COOLDOWN,
                  confirmed |-> TRUE, page |-> handleNextLetter(p)]
            ELSE [quiet EXCEPT !.start = stableDuration]
    ELSE [quiet EXCEPT !.start = NULL]

\* The stability effect on the camera state c = [start, processing, timeout]
\* and the page p, for the rendered hand state hs and the snapshot in
\* lastHandStateRef.  confirmed tells whether onCorrectGesture was called.
stabilityEffect(hs, previous, c, p) ==
  LET quiet == [start |-> c.start, processing |-> c.processing, timeout |-> c.timeout,
                confirmed |-> FALSE, page |-> p]
  IN
  IF ~hs.isInCircle \/ c.processing THEN quiet
  ELSE
    LET isStable == isHandStateStable(hs, previous) IN
    IF isStable
    THEN LET stableDuration == IF c.start = NULL THEN 0 ELSE c.start
         IN IF stableDuration >= STABILITY_DURATION /\ isCorrectGesture(hs, currentLetter(p.ls))
            THEN [start |-> NULL, processing |-> TRUE, timeout |-> PROCESSING_COOLDOWN,
                  confirmed |-> TRUE, page |-> handleNextLetter(p)]
            ELSE [quiet EXCEPT !.start = stableDuration]
    ELSE [quiet EXCEPT !.start = NULL]

Cam == [start |-> stableStartTimeRef, processing |-> isProcessing,
        timeout |-> processingTimeoutRef]

\* the dependency array [handState.isInCircle, handState.fingerStates, isProcessing].
\* newResult tells that onResults has replaced handState: every in-circle
\* result carries a fresh fingerStates object, which differs from any other
DepsChanged(oldHs, newHs, newResult, oldProcessing, newProcessing) ==
  \/ oldHs.isInCircle # newHs.isInCircle
  \/ newResult /\ newHs.hasFingerStates
  \/ oldHs.hasFingerStates # newHs.hasFingerStates
  \/ oldProcessing # newProcessing

\* a freshly mounted (or unmounted) camera component
CameraReset ==
  /\ handState' = NoHandState
  /\ lastHandStateRef' = <<>>
  /\ stableStartTimeRef' = NULL
  /\ isProcessing' = FALSE
  /\ processingTimeoutRef' = NULL
  /\ effectPending' = FALSE
  /\ poseHeldFor' = NULL
  /\ prevFingers' = <<>>
  /\ sinceConfirm' = NULL
  /\ confirmGap' = NULL
  /\ heldAdvanced' = FALSE

\* ------------------------------------------------------------------- Init
NoVariant == "CameraComponent.tsx"
NoLetter == "null"
NoResult == [letter |-> NoLetter, feedback |-> <<>>]

\* what the onResults closure created by a run of the camera effect reads
Captured(count, last, target) ==
  [detectionCount |-> count, lastDetectedLetter |-> last, targetLetter |-> target]

\* a freshly mounted variant v with target letter t
VariantMounted(v, t) ==
  /\ variant = v
  /\ targetLetter = t
  /\ detectedLetter = NoLetter
  /\ confidence = 0
  /\ isCorrect = FALSE
  /\ detectionCount = 0
  /\ lastDetectedLetter = NoLetter
  /\ fingerFeedback = <<>>
  /\ callback = Captured(0, NoLetter, t)
  /\ effectDue = FALSE
  /\ confirmTimeouts = <<>>
  /\ multiHandLandmarks = <<>>
  /\ gestureResult = NoResult
  /\ targetStreak = 0
  /\ streakCancelled = FALSE
  /\ frameParity = 0

\* HandGestureData with the finger states fs and no optional field
FingerData(t, fs) ==
  [targetLetter |-> t, hasFingerStates |-> TRUE, fingerStates |-> fs,
   landmarks |-> Truncated(ServiceHand(AllClosed), -1),
   isStable |-> <<>>, stabilityScore |-> 0, handOrientation |-> ""]

NoGestureData ==
  FingerData("", [f \in {fingers[k] : k \in 1..5} |-> [extended |-> FALSE]])

\* detectFingerStates not called
DetectIdle ==
  /\ detectLandmarks = <<>>
  /\ detectedFingers = <<>>

\* the evaluation service at rest
ServiceIdle ==
  /\ gestureData = NoGestureData
  /\ matchScore = NULL
  /\ evaluationResult = <<>>

LessonInit ==
  /\ learningState = IdleLesson
  /\ isProcessingRef = FALSE
  /\ guardTimers = <<>>
  /\ renderError = FALSE
  /\ handState = NoHandState
  /\ lastHandStateRef = <<>>
  /\ stableStartTimeRef = NULL
  /\ isProcessing = FALSE
  /\ processingTimeoutRef = NULL
  /\ effectPending = FALSE
  /\ poseHeldFor = NULL
  /\ prevFingers = <<>>
  /\ sinceConfirm = NULL
  /\ confirmGap = NULL
  /\ advances = 0
  /\ heldAdvanced = FALSE
  /\ lastOp = "none"

Init ==
  /\ LessonInit /\ VariantMounted(NoVariant, "") /\ ServiceIdle
  /\ stableResult = <<>> /\ DetectIdle /\ cameras = <<>>

\* ---------------------------------------------------------------- actions
\* NameInput.handleSubmit with the field holding typed, then handleNameSubmit
SubmitName ==
  /\ ~renderError
  /\ learningState.userName = <<>>
  /\ \E typed \in TypedNames :
       /\ trim(typed) # <<>>
       /\ learningState' = handleNameSubmit(trim(typed))
  /\ renderError' = RenderThrows(learningState')
  /\ CameraReset
  /\ advances' = 0
  /\ lastOp' = "submit"
  /\ UNCHANGED <<isProcessingRef, guardTimers>>
  /\ UNCHANGED <<variantVars, serviceVars, callVars>>

\* the page part of a step that called handleNextLetter with result r
ApplyNext(r) ==
  /\ learningState' = r.ls
  /\ isProcessingRef' = r.ref
  /\ guardTimers' = r.timers
  /\ advances' = IF r.accepted THEN Min(advances + 1, MaxNameLen + 1) ELSE advances
  /\ renderError' = RenderThrows(r.ls)

\* the "Next Letter" button of ProgressCard
ClickNextLetter ==
  /\ UNCHANGED <<variantVars, serviceVars, callVars>>
  /\ ~renderError
  /\ learningState.userName # <<>>
  /\ ~effectPending
  /\ LET r == handleNextLetter(Page)
     IN /\ ApplyNext(r)
        /\ lastOp' = IF r.accepted THEN "clickAccepted" ELSE "clickRejected"
        /\ IF CameraMounted(r.ls) /\ ~RenderThrows(r.ls)
           THEN UNCHANGED <<camVars, poseHeldFor, prevFingers, sinceConfirm, confirmGap,
                            heldAdvanced>>
           ELSE CameraReset

\* "Start Over" and "Try Another Name"
ClickReset ==
  /\ ~renderError
  /\ learningState.userName # <<>>
  /\ ~effectPending
  /\ learningState' = handleReset
  /\ CameraReset
  /\ lastOp' = "reset"
  /\ UNCHANGED <<isProcessingRef, guardTimers, renderError, advances>>
  /\ UNCHANGED <<variantVars, serviceVars, callVars>>

\* the camera part of a step that ran the stability effect with result e,
\* after which the rendered hand state is hs and the snapshot is ref;
\* samePose tells that hs continues the pose that was shown before the step
ApplyEffect(e, hs, ref, pending, held, prev, samePose) ==
  /\ ApplyNext(e.page)
  /\ lastOp' = IF ~e.confirmed THEN "none"
               ELSE IF e.page.accepted THEN "confirmAccepted" ELSE "confirmRejected"
  /\ IF CameraMounted(e.page.ls) /\ ~RenderThrows(e.page.ls)
     THEN /\ handState' = hs
          /\ lastHandStateRef' = ref
          /\ stableStartTimeRef' = e.start
          /\ isProcessing' = e.processing
          /\ processingTimeoutRef' = e.timeout
          /\ effectPending' = pending
          /\ poseHeldFor' = held
          /\ prevFingers' = prev
          /\ sinceConfirm' = IF e.confirmed THEN 0 ELSE sinceConfirm
          /\ confirmGap' = IF e.confirmed THEN sinceConfirm ELSE confirmGap
          /\ heldAdvanced' = (samePose /\ (heldAdvanced \/ (e.confirmed /\ e.page.accepted)))
     ELSE CameraReset

\* the scheduled stability effect runs
RunEffect ==
  /\ UNCHANGED <<variantVars, serviceVars, callVars>>
  /\ ~renderError
  /\ effectPending
  /\ LET e == stabilityEffect(handState, lastHandStateRef, Cam, Page)
     IN ApplyEffect(e, handState, lastHandStateRef,
                    DepsChanged(handState, handState, FALSE, isProcessing, e.processing),
                    poseHeldFor, prevFingers, TRUE)

\* hands.onResults delivers one result
OnResults ==
  /\ UNCHANGED <<variantVars, serviceVars, callVars>>
  /\ ~renderError
  /\ CameraMounted(learningState)
  /\ \E frame \in Frames :
       LET hs == onResultsHandState(frame)
           ref == IF hs.isInCircle THEN <<hs>> ELSE lastHandStateRef
           held == IF ~hs.isInCircle THEN NULL
                   ELSE IF handState.isInCircle /\ handState.fingerStates = hs.fingerStates
                        THEN IF poseHeldFor = NULL THEN 0 ELSE poseHeldFor
                        ELSE 0
           prev == IF ~hs.isInCircle THEN prevFingers
                   ELSE IF lastHandStateRef = <<>> THEN <<>>
                        ELSE <<lastHandStateRef[1].fingerStates>>
           quiet == [start |-> stableStartTimeRef, processing |-> isProcessing,
                     timeout |-> processingTimeoutRef, confirmed |-> FALSE,
                     page |-> Page]
           e == IF effectPending
                THEN stabilityEffect(handState, ref, Cam, Page)
                ELSE quiet
       IN ApplyEffect(e, hs, ref,
                      DepsChanged(handState, hs, TRUE, isProcessing, e.processing),
                      held, prev,
                      hs.isInCircle /\ handState.isInCircle
                        /\ handState.fingerStates = hs.fingerStates)

\* the cooldown timer set by the stability effect fires
CooldownExpires ==
  /\ ~renderError
  /\ processingTimeoutRef = 0
  /\ isProcessing' = FALSE
  /\ processingTimeoutRef' = NULL
  /\ effectPending' = (effectPending \/ DepsChanged(handState, handState, FALSE, isProcessing, FALSE))
  /\ lastOp' = "none"
  /\ UNCHANGED <<pageVars, renderError, handState, lastHandStateRef, stableStartTimeRef,
                 poseHeldFor, prevFingers, sinceConfirm, confirmGap, advances,
                 heldAdvanced>>
  /\ UNCHANGED <<variantVars, serviceVars, callVars>>

\* the oldest guard timer of handleNextLetter fires
GuardExpires ==
  /\ guardTimers # <<>>
  /\ Head(guardTimers) = 0
  /\ isProcessingRef' = FALSE
  /\ guardTimers' = Tail(guardTimers)
  /\ lastOp' = "none"
  /\ UNCHANGED <<learningState, renderError, camVars, poseHeldFor, prevFingers,
                 sinceConfirm, confirmGap, advances, heldAdvanced>>
  /\ UNCHANGED <<variantVars, serviceVars, callVars>>

\* TickMs pass
Tick ==
  /\ ~effectPending
  /\ processingTimeoutRef # 0
  /\ \A i \in 1..Len(guardTimers) : guardTimers[i] # 0
  /\ guardTimers' = [i \in 1..Len(guardTimers) |-> Sooner(guardTimers[i])]
  /\ processingTimeoutRef' = Sooner(processingTimeoutRef)
  /\ stableStartTimeRef' = Older(stableStartTimeRef, STABILITY_DURATION)
  /\ poseHeldFor' = Older(poseHeldFor, STABILITY_DURATION)
  /\ sinceConfirm' = Older(sinceConfirm, PROCESSING_COOLDOWN + STABILITY_DURATION)
  /\ lastOp' = "none"
  /\ UNCHANGED <<learningState, isProcessingRef, renderError, handState,
                 lastHandStateRef, isProcessing, effectPending, prevFingers, confirmGap,
                 advances, heldAdvanced>>
  /\ UNCHANGED <<variantVars, serviceVars, callVars>>

Next ==
  \/ SubmitName
  \/ ClickNextLetter
  \/ ClickReset
  \/ OnResults
  \/ RunEffect
  \/ CooldownExpires
  \/ GuardExpires
  \/ Tick


\* --------------------------------------------- actions of the variants
\* target letters the parent passes to a variant: the letter the classifier
\* falls back to, a letter that wins its pattern, and a letter that never wins
TargetLetters == {"A", "D", "E"}

\* the dependency array of the camera effect differs from what the
\* registered callback captured (part_002 also lists lastDetectedLetter and
\* detectionCount)
VariantDepsChanged(v, count, last, target) ==
  \/ target # callback.targetLetter
  \/ v = "part_002" /\ (count # callback.detectionCount \/ last # callback.lastDetectedLetter)

\* hands.onResults of the variants for one result; the callback reads the
\* lastDetectedLetter, detectionCount and targetLetter it captured
VariantOnResults ==
  /\ variant \in Variants
  /\ \E frame \in VariantFrames :
       /\ multiHandLandmarks' = frame
       /\ IF Len(frame) > 0
          THEN LET result == classified[variant][frame]
                   letter == result.letter
                   schedules == letter = callback.targetLetter
                                  /\ callback.detectionCount >= REQUIRED_DETECTIONS
               IN /\ schedules => Len(confirmTimeouts) < MaxPendingConfirms
                  /\ fingerFeedback' = IF variant = "part_001" THEN result.feedback
                                       ELSE fingerFeedback
                  /\ detectedLetter' = letter
                  /\ IF letter = callback.lastDetectedLetter
                     THEN /\ detectionCount' = Min(detectionCount + 1, MaxDetections)
                          /\ UNCHANGED lastDetectedLetter
                     ELSE /\ detectionCount' = 1
                          /\ lastDetectedLetter' = letter
                  /\ IF letter = callback.targetLetter
                     THEN /\ confidence' = 9
                          /\ isCorrect' = TRUE
                     ELSE /\ confidence' = 3
                          /\ isCorrect' = FALSE
                  /\ confirmTimeouts' = IF schedules
                                        THEN Append(confirmTimeouts, CONFIRM_DELAY)
                                        ELSE confirmTimeouts
                  /\ targetStreak' = IF letter = targetLetter
                                     THEN Min(targetStreak + 1, REQUIRED_DETECTIONS)
                                     ELSE 0
                  /\ streakCancelled' = (streakCancelled
                                           /\ targetStreak' < REQUIRED_DETECTIONS)
          ELSE /\ detectedLetter' = NoLetter
               /\ confidence' = 0
               /\ isCorrect' = FALSE
               /\ detectionCount' = 0
               /\ lastDetectedLetter' = NoLetter
               /\ fingerFeedback' = <<>>
               /\ targetStreak' = 0
               /\ streakCancelled' = TRUE
               /\ UNCHANGED confirmTimeouts
  /\ effectDue' = (effectDue \/ VariantDepsChanged(variant, detectionCount',
                                                   lastDetectedLetter', targetLetter))
  /\ frameParity' = 1 - frameParity
  /\ UNCHANGED <<variant, targetLetter, callback, gestureResult>>
  /\ UNCHANGED <<lessonVars, serviceVars, callVars>>

\* the camera effect runs again: a new Hands instance gets a callback that
\* closes over the state of the latest render
CameraEffectReruns ==
  /\ variant \in Variants
  /\ effectDue
  /\ callback' = Captured(detectionCount, lastDetectedLetter, targetLetter)
  /\ effectDue' = FALSE
  /\ UNCHANGED <<variant, targetLetter, detectedLetter, confidence, isCorrect,
                 detectionCount, lastDetectedLetter, fingerFeedback, confirmTimeouts,
                 multiHandLandmarks, gestureResult, targetStreak, streakCancelled,
                 frameParity>>
  /\ UNCHANGED <<lessonVars, serviceVars, callVars>>

\* the parent renders again with target letter t and a new onCorrectGesture
ParentRenders(t) ==
  /\ targetLetter' = t
  /\ effectDue' = TRUE
  /\ targetStreak' = IF t = targetLetter THEN targetStreak ELSE 0
  /\ streakCancelled' = (streakCancelled \/ t # targetLetter)

\* a confirmation timer fires: onCorrectGesture(), setIsCorrect(false),
\* setDetectionCount(0).  The parent either moves on to some letter or
\* ignores the call.
ConfirmTimeoutFires ==
  /\ variant \in Variants
  /\ confirmTimeouts # <<>>
  /\ Head(confirmTimeouts) = 0
  /\ confirmTimeouts' = Tail(confirmTimeouts)
  /\ isCorrect' = FALSE
  /\ detectionCount' = 0
  /\ \/ \E t \in TargetLetters : ParentRenders(t)
     \/ /\ UNCHANGED <<targetLetter, targetStreak, streakCancelled>>
        /\ effectDue' = (effectDue \/ VariantDepsChanged(variant, 0, lastDetectedLetter,
                                                         targetLetter))
  /\ UNCHANGED <<variant, detectedLetter, confidence, lastDetectedLetter, fingerFeedback,
                 callback, multiHandLandmarks, gestureResult, frameParity>>
  /\ UNCHANGED <<lessonVars, serviceVars, callVars>>

\* the user presses "Next Letter" on the page: the parent renders again
ParentNextLetter ==
  /\ variant \in Variants
  /\ ~effectDue
  /\ \E t \in TargetLetters : ParentRenders(t)
  /\ UNCHANGED <<variant, detectedLetter, confidence, isCorrect, detectionCount,
                 lastDetectedLetter, fingerFeedback, callback, confirmTimeouts,
                 multiHandLandmarks, gestureResult, frameParity>>
  /\ UNCHANGED <<lessonVars, serviceVars, callVars>>

\* TickMs pass for the variant
VariantTick ==
  /\ variant \in Variants
  /\ ~effectDue
  /\ confirmTimeouts # <<>>
  /\ \A i \in 1..Len(confirmTimeouts) : confirmTimeouts[i] # 0
  /\ confirmTimeouts' = [i \in 1..Len(confirmTimeouts) |-> Sooner(confirmTimeouts[i])]
  /\ UNCHANGED <<variant, targetLetter, detectedLetter, confidence, isCorrect,
                 detectionCount, lastDetectedLetter, fingerFeedback, callback,
                 effectDue, multiHandLandmarks, gestureResult, targetStreak,
                 streakCancelled, frameParity>>
  /\ UNCHANGED <<lessonVars, serviceVars, callVars>>

VariantNext ==
  \/ VariantOnResults
  \/ CameraEffectReruns
  \/ ConfirmTimeoutFires
  \/ ParentNextLetter
  \/ VariantTick

\* classifyHandGesture applied to the hand in multiHandLandmarks
Classify ==
  /\ variant \in Variants
  /\ multiHandLandmarks # <<>>
  /\ gestureResult = NoResult
  /\ gestureResult' = classifyHandGesture(multiHandLandmarks[1], variant)
  /\ UNCHANGED <<variant, targetLetter, detectedLetter, confidence, isCorrect,
                 detectionCount, lastDetectedLetter, fingerFeedback, callback,
                 effectDue, confirmTimeouts, multiHandLandmarks, targetStreak,
                 streakCancelled, frameParity>>
  /\ UNCHANGED <<lessonVars, serviceVars, callVars>>

\* a variant's classifier and a hand to classify
ClassifierInit ==
  /\ LessonInit
  /\ \E v \in Variants, t \in TargetLetters, hand \in ClassifierInputs :
       /\ variant = v
       /\ targetLetter = t
       /\ multiHandLandmarks = <<hand>>
  /\ detectedLetter = NoLetter
  /\ confidence = 0
  /\ isCorrect = FALSE
  /\ detectionCount = 0
  /\ lastDetectedLetter = NoLetter
  /\ fingerFeedback = <<>>
  /\ callback = Captured(0, NoLetter, targetLetter)
  /\ effectDue = FALSE
  /\ confirmTimeouts = <<>>
  /\ gestureResult = NoResult
  /\ targetStreak = 0
  /\ streakCancelled = FALSE
  /\ frameParity = 0
  /\ ServiceIdle
  /\ stableResult = <<>>
  /\ DetectIdle
  /\ cameras = <<>>

VariantInit ==
  /\ LessonInit
  /\ ServiceIdle
  /\ stableResult = <<>>
  /\ DetectIdle
  /\ cameras = <<>>
  /\ \E v \in Variants, t \in TargetLetters : VariantMounted(v, t)

\* -------------------------------------------- actions of the service
\* the finger analysis of the data is compared with the expected pattern of
\* its target letter
CompareWithExpected ==
  /\ matchScore = NULL
  /\ matchScore' = compareWithExpectedPattern(
                      analyzeFingerStates(gestureData.fingerStates),
                      getExpectedASLPattern(gestureData.targetLetter))
  /\ UNCHANGED <<gestureData, evaluationResult>>
  /\ UNCHANGED <<lessonVars, variantVars, callVars>>

\* isHandStateStable is called with the hand state and the previous one
IsHandStateStable ==
  /\ stableResult = <<>>
  /\ stableResult' = <<isHandStateStable(handState, lastHandStateRef)>>
  /\ UNCHANGED <<lessonVars, variantVars, serviceVars, detectVars, cameras>>

\* finger states of a fist, of a fist with one finger extended and of an
\* open hand
StableFingers ==
  {FistPose, FingerGuide(TRUE, TRUE, TRUE, TRUE, TRUE)}
    \cup {[FistPose EXCEPT ![f] = TRUE] : f \in DOMAIN FistPose}

\* confidences in tenths whose differences in double arithmetic fall on the
\* same side of 0.2 as the differences of the tenths do
StableConfidences == {0, 7, 8, 9}

\* hand states with and without finger states
StableHandStates ==
  {[isInCircle |-> c, fingerCount |-> CountTrue(fs), confidence |-> conf,
    isStable |-> FALSE, hasFingerStates |-> TRUE, fingerStates |-> fs] :
      c \in BOOLEAN, conf \in StableConfidences, fs \in StableFingers}
    \cup {[NoHandState EXCEPT !.isInCircle = c, !.confidence = conf] :
             c \in BOOLEAN, conf \in StableConfidences}

\* a current hand state and a previous one, or none
StableInit ==
  /\ learningState = IdleLesson
  /\ isProcessingRef = FALSE
  /\ guardTimers = <<>>
  /\ renderError = FALSE
  /\ handState \in StableHandStates
  /\ lastHandStateRef \in {<<>>} \cup {<<previous>> : previous \in StableHandStates}
  /\ stableStartTimeRef = NULL
  /\ isProcessing = FALSE
  /\ processingTimeoutRef = NULL
  /\ effectPending = FALSE
  /\ poseHeldFor = NULL
  /\ prevFingers = <<>>
  /\ sinceConfirm = NULL
  /\ confirmGap = NULL
  /\ advances = 0
  /\ heldAdvanced = FALSE
  /\ lastOp = "none"
  /\ VariantMounted(NoVariant, "")
  /\ ServiceIdle
  /\ stableResult = <<>>
  /\ DetectIdle
  /\ cameras = <<>>

\* detectFingerStates is called with the landmarks of one hand
DetectFingerStates ==
  /\ detectedFingers = <<>>
  /\ detectedFingers' = <<detectFingerStates(detectLandmarks)>>
  /\ UNCHANGED detectLandmarks
  /\ UNCHANGED <<lessonVars, variantVars, serviceVars, stableResult, cameras>>

\* positions of the thumb's MCP joint and of its tip, in hundredths, around a
\* wrist at (50, 50): Manhattan distances 15 and 5 for the joint, and tips
\* at distances just above and just below 1.2 times those, to either side of
\* the wrist.  No tip sits exactly at 1.2 times, where the rounding of the
\* doubles decides
ThumbMCPs == {[x |-> 60, y |-> 45], [x |-> 45, y |-> 50]}
ThumbTips ==
  {[x |-> 69, y |-> 50], [x |-> 60, y |-> 43], [x |-> 50, y |-> 57],
   [x |-> 43, y |-> 50], [x |-> 46, y |-> 49], [x |-> 50, y |-> 50]}

\* a fingertip above, level with and below its PIP joint
TipOffsets == {-1, 0, 1}

\* the landmarks of a hand with the given thumb and fingertip positions
DetectHand(mcp, tip, dy) ==
  [MakeHand(50, 50, FistPose) EXCEPT
     ![2] = mcp, ![4] = tip,
     ![8].y = 30 + dy[1], ![12].y = 28 + dy[2],
     ![16].y = 30 + dy[3], ![20].y = 34 + dy[4]]

DetectHands ==
  {DetectHand(mcp, tip, dy) :
     mcp \in ThumbMCPs, tip \in ThumbTips,
     dy \in [1..4 -> TipOffsets]}

DetectInit ==
  /\ LessonInit
  /\ VariantMounted(NoVariant, "")
  /\ ServiceIdle
  /\ stableResult = <<>>
  /\ detectLandmarks \in DetectHands
  /\ detectedFingers = <<>>
  /\ cameras = <<>>

\* ------------------------------------------------------ camera start-up
\* One CameraComponent instance: the effect that starts the camera, the
\* asynchronous steps of initializeCamera and initializeMediaPipe, the frame
\* loop and the effect's cleanup.
\*   mounted            the effect has run and its cleanup has not
\*   videoRef           videoRef.current is the video element (not null)
\*   step               where initializeCamera is waiting
\*   streamRef          "none", or the state of the stream in streamRef.current
\*   handsRef           handsRef.current is set
\*   frameRequested     a requestAnimationFrame callback is scheduled
\*   sending            processFrame is awaiting hands.send
\*   isInitializingRef  the ref of that name
MountedCamera ==
  [mounted |-> TRUE, videoRef |-> TRUE, step |-> "getUserMedia",
   streamRef |-> "none", handsRef |-> FALSE, frameRequested |-> FALSE,
   sending |-> FALSE, isInitializingRef |-> TRUE]

\* the page mounts CameraComponent with isActive true: the effect sets
\* isInitializingRef, initializeCamera finds the video element and no
\* stream, and asks for the camera
MountCamera ==
  /\ Len(cameras) < MaxMounts
  /\ \A i \in 1..Len(cameras) : ~cameras[i].mounted
  /\ cameras' = Append(cameras, MountedCamera)
  /\ UNCHANGED <<lessonVars, variantVars, serviceVars, stableResult, detectVars>>

\* the cleanup of the effect, after React has detached the refs: the frame
\* whose id is in animationFrameRef is cancelled (a callback that has fired
\* and is awaiting send is not), and the tracks of streamRef are stopped
cleanup(c) ==
  [c EXCEPT !.mounted = FALSE, !.videoRef = FALSE,
            !.isInitializingRef = TRUE,
            !.frameRequested = FALSE,
            !.streamRef = IF @ = "live" THEN "stopped" ELSE @]

\* the page unmounts CameraComponent (lesson completed or reset)
UnmountCamera ==
  /\ \E i \in 1..Len(cameras) :
       /\ cameras[i].mounted
       /\ cameras' = [cameras EXCEPT ![i] = cleanup(@)]
  /\ UNCHANGED <<lessonVars, variantVars, serviceVars, stableResult, detectVars>>

\* getUserMedia resolves: the stream goes into streamRef.  With the video
\* element gone, the video set-up is skipped, initializeMediaPipe returns at
\* its first line and the finally block runs
GetUserMediaResolves ==
  /\ \E i \in 1..Len(cameras) :
       /\ cameras[i].step = "getUserMedia"
       /\ cameras' = [cameras EXCEPT ![i] =
             IF @.videoRef
             THEN [@ EXCEPT !.streamRef = "live", !.step = "metadata"]
             ELSE [@ EXCEPT !.streamRef = "live", !.step = "returned",
                            !.isInitializingRef = FALSE]]
  /\ UNCHANGED <<lessonVars, variantVars, serviceVars, stableResult, detectVars>>

\* getUserMedia rejects, or the video reports an error or cannot play: the
\* catch block and the finally block run
InitializeCameraFails ==
  /\ \E i \in 1..Len(cameras) :
       /\ \/ cameras[i].step = "getUserMedia"
          \/ cameras[i].step = "metadata" /\ cameras[i].videoRef
       /\ cameras' = [cameras EXCEPT ![i] =
             [@ EXCEPT !.step = "failed", !.isInitializingRef = FALSE]]
  /\ UNCHANGED <<lessonVars, variantVars, serviceVars, stableResult, detectVars>>

\* the video loads its metadata and plays: initializeMediaPipe finds the
\* video and the canvas and starts the dynamic import.  Once the video
\* element is gone the handler cannot run play() and the promise stays
\* pending
VideoPlays ==
  /\ \E i \in 1..Len(cameras) :
       /\ cameras[i].step = "metadata"
       /\ cameras[i].videoRef
       /\ cameras' = [cameras EXCEPT ![i].step = "import"]
  /\ UNCHANGED <<lessonVars, variantVars, serviceVars, stableResult, detectVars>>

\* the import resolves: handsRef is set and the first frame is requested;
\* initializeCamera's finally block runs
ImportResolves ==
  /\ \E i \in 1..Len(cameras) :
       /\ cameras[i].step = "import"
       /\ cameras' = [cameras EXCEPT ![i] =
             [@ EXCEPT !.step = "running", !.handsRef = TRUE,
                       !.frameRequested = TRUE, !.isInitializingRef = FALSE]]
  /\ UNCHANGED <<lessonVars, variantVars, serviceVars, stableResult, detectVars>>

\* the import fails: the fallback loop requests its first frame
ImportRejects ==
  /\ \E i \in 1..Len(cameras) :
       /\ cameras[i].step = "import"
       /\ cameras' = [cameras EXCEPT ![i] =
             [@ EXCEPT !.step = "running", !.frameRequested = TRUE,
                       !.isInitializingRef = FALSE]]
  /\ UNCHANGED <<lessonVars, variantVars, serviceVars, stableResult, detectVars>>

\* a requested frame arrives and processFrame hands the video to
\* hands.send; without hands or video it requests the next frame at once,
\* which leaves the state as it is
ProcessFrame ==
  /\ \E i \in 1..Len(cameras) :
       /\ cameras[i].frameRequested
       /\ cameras[i].handsRef
       /\ cameras[i].videoRef
       /\ cameras' = [cameras EXCEPT ![i] =
             [@ EXCEPT !.frameRequested = FALSE, !.sending = TRUE]]
  /\ UNCHANGED <<lessonVars, variantVars, serviceVars, stableResult, detectVars>>

\* hands.send settles and processFrame requests the next frame
SendSettles ==
  /\ \E i \in 1..Len(cameras) :
       /\ cameras[i].sending
       /\ cameras' = [cameras EXCEPT ![i] =
             [@ EXCEPT !.frameRequested = TRUE, !.sending = FALSE]]
  /\ UNCHANGED <<lessonVars, variantVars, serviceVars, stableResult, detectVars>>

CameraNext ==
  \/ MountCamera
  \/ UnmountCamera
  \/ GetUserMediaResolves
  \/ InitializeCameraFails
  \/ VideoPlays
  \/ ImportResolves
  \/ ImportRejects
  \/ ProcessFrame
  \/ SendSettles

CameraInit ==
  /\ LessonInit
  /\ VariantMounted(NoVariant, "")
  /\ ServiceIdle
  /\ stableResult = <<>>
  /\ DetectIdle
  /\ cameras = <<>>

\* data for the service: any target, any finger states
PatternInit ==
  /\ LessonInit
  /\ VariantMounted(NoVariant, "")
  /\ gestureData \in {FingerData(t, fs) :
                        t \in ServiceTargets, fs \in ServiceFingerStates}
  /\ matchScore = NULL
  /\ evaluationResult = <<>>
  /\ stableResult = <<>>
  /\ DetectIdle
  /\ cameras = <<>>

\* the service evaluates the data and resolves
EvaluateHandGesture ==
  /\ evaluationResult = <<>>
  /\ evaluationResult' = <<evaluateHandGesture(gestureData)>>
  /\ UNCHANGED <<gestureData, matchScore>>
  /\ UNCHANGED <<lessonVars, variantVars, callVars>>

\* data for an evaluation: any target, finger states or landmarks alone, any
\* stability flag and score, any orientation
EvalInit ==
  /\ LessonInit
  /\ VariantMounted(NoVariant, "")
  /\ gestureData \in
       {[d EXCEPT !.isStable = st, !.stabilityScore = sc, !.handOrientation = o] :
          d \in {FingerData(t, fs) : t \in ServiceTargets, fs \in ServiceFingerStates}
                \cup {[FingerData(t, NoGestureData.fingerStates)
                         EXCEPT !.hasFingerStates = FALSE, !.landmarks = l] :
                         t \in ServiceTargets, l \in ServiceLandmarks},
          st \in StableFlags, sc \in StabilityScores, o \in Orientations}
  /\ matchScore = NULL
  /\ evaluationResult = <<>>
  /\ stableResult = <<>>
  /\ DetectIdle
  /\ cameras = <<>>

\* ------------------------------------------------------- named conditions
Confirms == {"confirmAccepted", "confirmRejected"}
Accepts == {"clickAccepted", "confirmAccepted"}
NextCalls == {"clickAccepted", "clickRejected", "confirmAccepted", "confirmRejected"}

\* the lesson was spelled to the end: the congratulation card is shown
Completed == learningState.userName # <<>> /\ ~learningState.isLearning

\* the rendered hand is in the circle and shows the target letter's pattern
HoldingTarget ==
  handState.isInCircle /\ isCorrectGesture(handState, currentLetter(learningState))

\* ------------------------------------------------------------------ C1
\* C1: whenever isLearning is true, 0 <= currentLetterIndex < length(userName).
C1_IndexInRange ==
  learningState.isLearning =>
    /\ 0 <= learningState.currentLetterIndex
    /\ learningState.currentLetterIndex < Len(learningState.userName)

\* a lesson in progress that has been advanced to its second letter
C1_Witness ==
  /\ learningState.isLearning
  /\ learningState.currentLetterIndex = 1
  /\ lastOp \in Accepts

\* ------------------------------------------------------------------ C2
\* C2: an accepted handleNextLetter call moves the index forward by exactly
\* one when the current letter is not the last and ends the lesson when it
\* is; so the index always equals the number of accepted advances and a name
\* of length n is completed after exactly n of them.
C2_AdvanceStep ==
  lastOp' \in Accepts =>
    /\ learningState.isLearning
    /\ ~isProcessingRef
    /\ IF learningState.currentLetterIndex < Len(learningState.userName) - 1
       THEN learningState' =
              [learningState EXCEPT !.currentLetterIndex = @ + 1]
       ELSE /\ ~learningState'.isLearning
            /\ learningState'.userName = learningState.userName

C2_Count ==
  /\ learningState.isLearning => learningState.currentLetterIndex = advances
  /\ Completed => advances = Len(learningState.userName)

C2_OneLetterPerAdvance == [][C2_AdvanceStep]_vars /\ []C2_Count

\* a three-letter name completed by its third accepted advance
C2_Witness ==
  /\ Completed
  /\ Len(learningState.userName) = 3
  /\ advances = 3
  /\ lastOp \in Accepts

\* ------------------------------------------------------------------ C3
\* C3: with frames, effects and timers delivered fairly, time passing and
\* no button used after the name was submitted, the lesson never stays on a
\* letter for ever while the user keeps that letter's pattern in the circle;
\* a user who eventually holds each target letter's sign therefore reaches
\* the completed state, where the name is still set.
C3_CompletionStep ==
  (lastOp' = "confirmAccepted" /\ ~learningState'.isLearning) =>
    /\ learningState'.userName = learningState.userName
    /\ learningState.currentLetterIndex = Len(learningState.userName) - 1

C3_HeldSignAdvances ==
  /\ []<>~(CameraMounted(learningState) /\ ~renderError /\ HoldingTarget)
  /\ [][C3_CompletionStep]_vars

\* a two-letter lesson completed by the camera alone
C3_Witness ==
  /\ Completed
  /\ Len(learningState.userName) = 2
  /\ advances = 2
  /\ lastOp = "confirmAccepted"
  /\ guardTimers = <<GUARD_DELAY>>

\* ------------------------------------------------------------------ C4
\* C4: onCorrectGesture is called only by an effect run in which the hand is
\* in the circle, isProcessing is false, the stable duration has reached
\* STABILITY_DURATION and the five finger states equal the target's pattern.
C4_ConfirmStep ==
  lastOp' \in Confirms =>
    /\ handState.isInCircle
    /\ ~isProcessing
    /\ stableStartTimeRef # NULL
    /\ stableStartTimeRef >= STABILITY_DURATION
    /\ currentLetter(learningState) \in DOMAIN gesturePatterns
    /\ handState.hasFingerStates
    /\ handState.fingerStates = gesturePatterns[currentLetter(learningState)]

C4_ConfirmOnlyWhenStableAndCorrect == [][C4_ConfirmStep]_vars

\* the camera has just called onCorrectGesture for a pointing hand
C4_Witness ==
  /\ lastOp \in Confirms
  /\ learningState.userName = <<"D", "A">>
  /\ learningState.currentLetterIndex = 1

\* ------------------------------------------------------------------ C5
\* C5: whenever onCorrectGesture is called, the pose of the confirming frame
\* has been shown in the circle, unchanged, for the whole STABILITY_DURATION
\* before the call.
C5_ConfirmStep ==
  lastOp' \in Confirms =>
    /\ poseHeldFor # NULL
    /\ poseHeldFor >= STABILITY_DURATION

C5_HeldForWholePeriod == [][C5_ConfirmStep]_vars

\* ------------------------------------------------------------------ C6
\* C6: once the stability effect has evaluated an in-circle frame whose
\* finger states differ from those of the preceding in-circle frame, the
\* stable start time is cleared.
C6_ChangedPoseClearsStart ==
  ( /\ CameraMounted(learningState)
    /\ ~effectPending
    /\ ~isProcessing
    /\ handState.isInCircle
    /\ prevFingers # <<>>
    /\ prevFingers[1] # handState.fingerStates
    /\ poseHeldFor = 0 )
  => stableStartTimeRef = NULL

\* ------------------------------------------------------------------ C7
\* C7: once a frame without a hand in the circle has been processed, the
\* stable start time is cleared.
C7_NoHandClearsStart ==
  ( /\ CameraMounted(learningState)
    /\ ~effectPending
    /\ ~handState.isInCircle )
  => stableStartTimeRef = NULL

\* ------------------------------------------------------------------ C8
\* C8: two onCorrectGesture calls of one camera component are at least
\* PROCESSING_COOLDOWN apart; during the cooldown results keep replacing
\* handState, and isProcessing goes back to false only when the cooldown
\* timer expires.
C8_ConfirmStep ==
  lastOp' \in Confirms =>
    (sinceConfirm = NULL \/ sinceConfirm >= PROCESSING_COOLDOWN)

C8_FrameStep ==
  (isProcessing /\ isProcessing' /\ lastHandStateRef' # lastHandStateRef) =>
    /\ handState' = lastHandStateRef'[1]
    /\ handState'.isInCircle

C8_ExpiryStep ==
  (isProcessing /\ ~isProcessing' /\ CameraMounted(learningState') /\ ~renderError'
     /\ learningState' = learningState) =>
    /\ processingTimeoutRef = 0
    /\ sinceConfirm >= PROCESSING_COOLDOWN

C8_TimerPending ==
  isProcessing <=> processingTimeoutRef # NULL

C8_Cooldown ==
  /\ [][C8_ConfirmStep /\ C8_FrameStep /\ C8_ExpiryStep]_vars
  /\ []C8_TimerPending

\* a new pose was taken over into handState half-way through the cooldown
C8_Witness ==
  /\ isProcessing
  /\ sinceConfirm = TickMs
  /\ handState.isInCircle
  /\ poseHeldFor = 0
  /\ prevFingers # <<>>
  /\ prevFingers[1] # handState.fingerStates
  /\ HoldingTarget

\* ------------------------------------------------------------------ C9
\* C9: a handleNextLetter call made while a guard timer is pending, or while
\* isLearning is false, is rejected: learningState stays as it is and no
\* timer is added.
C9_CallStep ==
  (lastOp' \in NextCalls /\ (guardTimers # <<>> \/ ~learningState.isLearning)) =>
    /\ lastOp' \notin Accepts
    /\ learningState' = learningState
    /\ guardTimers' = guardTimers
    /\ isProcessingRef' = isProcessingRef

C9_GuardedCallsRejected == [][C9_CallStep]_vars

\* the camera's call was turned down while the guard timer was still running
C9_Witness ==
  /\ lastOp = "confirmRejected"
  /\ guardTimers # <<>>
  /\ learningState.isLearning

\* ----------------------------------------------------------------- C10
\* C10: every onCorrectGesture call of the camera advances the lesson.
C10_EveryConfirmAdvances == lastOp # "confirmRejected"

\* ----------------------------------------------------------------- C11
\* C11: one pose held without interruption (the same finger states on every
\* frame, the hand never leaving the circle) advances the lesson by at most
\* one letter: a camera confirmation is not accepted for a pose that has
\* been held ever since an earlier confirmation of it advanced the lesson.
C11_AdvanceStep ==
  lastOp' = "confirmAccepted" => ~heldAdvanced

C11_HeldPoseAdvancesOnce == [][C11_AdvanceStep]_vars

\* ----------------------------------------------------------------- C12
\* Home renders <NameInput> exactly when userName is empty
NameFormShown == ~renderError /\ learningState.userName = <<>>

\* C12: after handleReset the lesson is idle (userName '', currentLetterIndex
\* 0, isLearning false), the name form is shown and there is no target
\* letter.
C12_ResetYieldsIdle ==
  lastOp = "reset" =>
    /\ learningState.userName = <<>>
    /\ learningState.currentLetterIndex = 0
    /\ ~learningState.isLearning
    /\ NameFormShown
    /\ ~CameraMounted(learningState)
    /\ currentLetter(learningState) = ""

\* a lesson that had been advanced twice was reset
C12_Witness ==
  /\ lastOp = "reset"
  /\ advances = 2
  /\ guardTimers # <<>>

\* ----------------------------------------------------------------- C13
\* C13: handleReset and handleNameSubmit leave the page with its guard
\* cleared (isProcessingRef false, no guard timer pending), and the first
\* confirmation of a lesson is never rejected by handleNextLetter.
C13_TransitionsClearGuard ==
  /\ lastOp \in {"reset", "submit"} => (~isProcessingRef /\ guardTimers = <<>>)
  /\ ~(lastOp = "confirmRejected" /\ advances = 0)

\* ----------------------------------------------------------------- C14
\* C14: after a confirmation that moved the lesson to its next letter, both
\* stableStartTimeRef and lastHandStateRef are null.
C14_ConfirmClearsSnapshot ==
  (lastOp = "confirmAccepted" /\ CameraMounted(learningState) /\ ~renderError) =>
    /\ stableStartTimeRef = NULL
    /\ lastHandStateRef = <<>>

\* ----------------------------------------------------------------- C15
\* C15: the name handed to handleNameSubmit is non-empty and has no leading
\* or trailing white space; after the submission userName is that name in
\* upper case, currentLetterIndex is 0 and isLearning is true.
C15_SubmitStartsLesson ==
  lastOp = "submit" =>
    /\ learningState.userName # <<>>
    /\ Len(learningState.userName) <= MaxNameLen
    /\ Head(learningState.userName) # " "
    /\ learningState.userName[Len(learningState.userName)] # " "
    /\ \A i \in 1..Len(learningState.userName) :
         /\ learningState.userName[i] \in {UpperChar(c) : c \in InputChars}
         /\ \A k \in 1..26 : learningState.userName[i] # LowerCase[k]
    /\ learningState.currentLetterIndex = 0
    /\ learningState.isLearning

\* a second name was submitted while a guard timer of the first lesson ran
C15_Witness ==
  /\ lastOp = "submit"
  /\ learningState.userName = <<"A", "D">>
  /\ guardTimers # <<>>

\* ----------------------------------------------------------------- C16
\* C16: every character of userName is a letter with an entry in
\* gesturePatterns.
C16_OnlyLetters ==
  \A i \in 1..Len(learningState.userName) :
    learningState.userName[i] \in DOMAIN gesturePatterns

\* ----------------------------------------------------------------- C17
\* the finger vector classifyHandGesture computed for the classified hand
ClassifiedFingers == extendedFingers(multiHandLandmarks[1], variant)

\* C17: for each of the 26 letters L, a hand whose finger states equal L's
\* pattern in gestures is classified as L, with a best score of at least
\* L's weight.
C17_OwnPatternYieldsLetter ==
  gestureResult # NoResult =>
    \A L \in DOMAIN gestures :
      ClassifiedFingers = gestures[L].pattern =>
        /\ gestureResult.letter = L
        /\ bestOf(multiHandLandmarks[1], variant).bestScore >= 5 * gestures[L].confidence

\* ----------------------------------------------------------------- C18
\* finalScore of letter L for the classified hand
FinalScore(L) ==
  patternMatches(gestures[L].pattern, ClassifiedFingers) * gestures[L].confidence

\* position of L in the table order of gestures (A to Z)
TableIndex(L) == CHOOSE i \in 1..Len(UpperCase) : UpperCase[i] = L

\* C18: for every finger vector the best match is the first letter, in
\* table order, among the letters with the maximum finalScore, and its score
\* is that maximum; above the threshold it is the letter returned.
C18_FirstOfBestWins ==
  gestureResult # NoResult =>
    LET best == bestOf(multiHandLandmarks[1], variant)
        winners == {L \in DOMAIN gestures :
                      \A M \in DOMAIN gestures : FinalScore(M) <= FinalScore(L)}
    IN /\ best.bestMatch \in winners
       /\ best.bestScore = FinalScore(best.bestMatch)
       /\ \A L \in winners : TableIndex(best.bestMatch) <= TableIndex(L)
       /\ best.bestScore > AcceptThreshold(variant) =>
            gestureResult.letter = best.bestMatch

\* a pointing hand, for which D and G tie with the top score, came out as D
C18_Witness ==
  /\ gestureResult.letter = "D"
  /\ ClassifiedFingers = <<FALSE, TRUE, FALSE, FALSE, FALSE>>
  /\ FinalScore("G") = FinalScore("D")
  /\ variant = "part_001"

\* ----------------------------------------------------------------- C19
\* C19: a hand frame whose best score does not exceed the acceptance
\* threshold is not a positive identification: it does not set isCorrect
\* (nor the 0.9 confidence shown with it), whatever the target letter.
C19_BelowThresholdNotPositive ==
  ( /\ variant \in Variants
    /\ multiHandLandmarks # <<>>
    /\ bestOf(multiHandLandmarks[1], variant).bestScore <= AcceptThreshold(variant) )
  => (~isCorrect /\ confidence # 9)

\* ----------------------------------------------------------------- C20
FistCluster == {"A", "E", "M", "N", "O", "S", "T"}

\* C20: for every finger-state input, the score against the expected
\* pattern of a fist-cluster target (A, E, M, N, O, S, T) is the score
\* against the expected pattern of every other letter of the cluster.
C20_FistClusterSameScore ==
  (matchScore # NULL /\ gestureData.targetLetter \in FistCluster) =>
    \A L \in FistCluster :
      matchScore = compareWithExpectedPattern(
                     analyzeFingerStates(gestureData.fingerStates),
                     getExpectedASLPattern(L))

\* the fingers whose extended flag differs from the expected pattern of the
\* target letter of the data
MismatchedFingers(data) ==
  {k \in 1..5 : fingerAnalysisOf(data)[fingers[k]].extended
                   # getExpectedASLPattern(data.targetLetter)[fingers[k]]}

\* C21: the suggestions of an evaluation are one finger suggestion for each
\* finger that differs from the expected pattern of the target letter,
\* 'Extend' when the finger is expected extended and 'Close' otherwise, in
\* the order thumb, index, middle, ring, pinky; their number is 5 minus the
\* match count of compareWithExpectedPattern; the only other suggestion is a
\* single orientation hint at the end
C21_OneSuggestionPerMismatch ==
  (evaluationResult # <<>> /\ ~AnalysisThrows(gestureData)) =>
    LET suggestions == evaluationResult[1].feedback
        expected == getExpectedASLPattern(gestureData.targetLetter)
        mismatched == MismatchedFingers(gestureData)
        n == Cardinality(mismatched)
    IN /\ n = 5 - correctMatchesOf(fingerAnalysisOf(gestureData), expected)
       /\ Len(suggestions) \in {n, n + 1}
       /\ \A i \in 1..n :
            LET k == CHOOSE k \in mismatched :
                       Cardinality({j \in mismatched : j < k}) = i - 1
            IN suggestions[i] = [say |-> IF expected[fingers[k]] THEN "Extend" ELSE "Close",
                                 finger |-> fingerNames[k]]
       /\ Len(suggestions) = n + 1 => suggestions[n + 1] = OrientationHint

\* an evaluation that suggested extending one finger, closing a later one and
\* rotating the hand
C21_Witness ==
  /\ evaluationResult # <<>>
  /\ Len(evaluationResult[1].feedback) = 3
  /\ evaluationResult[1].feedback[1].say = "Extend"
  /\ evaluationResult[1].feedback[2].say = "Close"
  /\ evaluationResult[1].feedback[3] = OrientationHint

\* C22: the confidence of every evaluation lies between 0 and 1 (0 and 100
\* hundredths) and the evaluation is correct exactly when the confidence is
\* greater than 0.65
C22_ConfidenceInUnitRange ==
  evaluationResult # <<>> =>
    /\ evaluationResult[1].confidence \in 0..100
    /\ evaluationResult[1].isCorrect <=> evaluationResult[1].confidence > 65

\* a perfect match of a very stable, well oriented hand: the bonuses are cut
\* off at 1
C22_Witness ==
  /\ evaluationResult # <<>>
  /\ ~AnalysisThrows(gestureData)
  /\ MismatchedFingers(gestureData) = {}
  /\ gestureData.isStable = <<TRUE>>
  /\ gestureData.stabilityScore > 80
  /\ gestureData.handOrientation = "up"
  /\ evaluationResult[1].confidence = 100

\* C23: isHandStateStable(current, previous) is true exactly when previous is
\* not null, both states carry finger states, the isInCircle flags are equal,
\* the five finger booleans are pairwise equal and the confidences differ by
\* less than 0.2
C23_StableIffSamePose ==
  stableResult # <<>> =>
    (stableResult[1] <=>
       /\ lastHandStateRef # <<>>
       /\ handState.hasFingerStates
       /\ lastHandStateRef[1].hasFingerStates
       /\ handState.isInCircle = lastHandStateRef[1].isInCircle
       /\ \A f \in DOMAIN FistPose :
            handState.fingerStates[f] = lastHandStateRef[1].fingerStates[f]
       /\ Abs(handState.confidence - lastHandStateRef[1].confidence) * 10 < 20)

\* two states of the same pose with different confidences were found stable
C23_Witness ==
  /\ stableResult = <<TRUE>>
  /\ handState.confidence # lastHandStateRef[1].confidence
  /\ handState.fingerStates.pinky

\* C24: consecutive analyses start at least ANALYSIS_INTERVAL apart and none
\* starts while the state changes of the previous one are pending: a result
\* that shows a new pose in the circle arrives when the pose before it has
\* been in the hand state for ANALYSIS_INTERVAL or longer and the stability
\* effect scheduled for it has run.
C24_AnalysisStep ==
  (/\ handState.isInCircle
   /\ handState'.isInCircle
   /\ handState'.fingerStates # handState.fingerStates)
    => /\ poseHeldFor # NULL
       /\ poseHeldFor >= ANALYSIS_INTERVAL
       /\ ~effectPending

C24_AnalysesSpacedAndSerial == [][C24_AnalysisStep]_vars

\* C25: two consecutive onCorrectGesture calls of one mounted camera
\* component are at least PROCESSING_COOLDOWN + STABILITY_DURATION apart.
C25_ConfirmsFarApart ==
  confirmGap # NULL => confirmGap >= PROCESSING_COOLDOWN + STABILITY_DURATION

\* the camera has called onCorrectGesture a second time
C25_Witness ==
  /\ lastOp \in Confirms
  /\ confirmGap # NULL

\* onResults calls setTimeout for a confirmation
SchedulesConfirm == Len(confirmTimeouts') > Len(confirmTimeouts)

\* a confirmation timer fires and calls onCorrectGesture
InvokesOnCorrectGesture == Len(confirmTimeouts') < Len(confirmTimeouts)

\* C26: a confirmation is scheduled only when the classified letter was the
\* target letter on 3 or more frames in a row, the scheduling frame included,
\* with no frame without a hand and no frame of another letter in between.
C26_SchedulesAfterThree ==
  [][SchedulesConfirm => targetStreak' >= REQUIRED_DETECTIONS]_vars

\* C27: while a scheduled confirmation has not fired, further frames do not
\* schedule another one.
C27_OneConfirmPending ==
  [][SchedulesConfirm => confirmTimeouts = <<>>]_vars

\* C28: once a frame without a hand has been received or the target letter
\* has changed, onCorrectGesture is not invoked until the target letter has
\* been classified on 3 frames in a row again; a confirmation scheduled
\* before does not fire.
C28_NoConfirmAfterNoHand ==
  [][InvokesOnCorrectGesture => ~streakCancelled]_vars

\* from some result on every result shows a hand classified as the target
HeldTarget == multiHandLandmarks # <<>> /\ detectedLetter = targetLetter

\* C29: in part_001, when the sign of the target letter is held so that every
\* result is classified as the target, onCorrectGesture is eventually
\* invoked, from a fresh mount and with no render of the parent before.
\* onCorrectGesture is invoked only by a confirmation timer, and a timer
\* that was set fires after CONFIRM_DELAY, so the invocation comes exactly
\* when a confirmation gets scheduled.
C29_HeldTargetConfirms ==
  (variant = "part_001" /\ <>[]HeldTarget) => <>(confirmTimeouts # <<>>)

\* the same for part_002
HeldTargetConfirms002 ==
  (variant = "part_002" /\ <>[]HeldTarget) => <>(confirmTimeouts # <<>>)

\* C30: the feedback classifyHandGesture returns for a frame lists exactly
\* the fingers whose detected state differs from the pattern of the current
\* target letter, from thumb to pinky.
C30_FeedbackForTarget ==
  (variant = "part_001" /\ gestureResult # NoResult) =>
    gestureResult.feedback
      = letterFeedbackFrom(gestures[targetLetter].pattern, ClassifiedFingers, 1)

\* the hand state CameraComponent would hold for the finger states of the data
DataHandState ==
  [isInCircle |-> TRUE, fingerCount |-> 0, confidence |-> CONFIDENCE_IN_CIRCLE,
   isStable |-> FALSE, hasFingerStates |-> TRUE,
   fingerStates |-> [f \in DOMAIN FistPose |-> gestureData.fingerStates[f].extended]]

\* C31: both tables have the 26 upper-case letters as keys and hold the same
\* five booleans for each, so finger states that isCorrectGesture accepts for
\* a target letter have 5 of 5 matches in compareWithExpectedPattern for it.
C31_TablesAgree ==
  /\ DOMAIN gesturePatterns = {UpperCase[i] : i \in 1..26}
  /\ DOMAIN patterns = {UpperCase[i] : i \in 1..26}
  /\ (matchScore # NULL /\ isCorrectGesture(DataHandState, gestureData.targetLetter)) =>
       correctMatchesOf(analyzeFingerStates(gestureData.fingerStates),
                        getExpectedASLPattern(gestureData.targetLetter)) = 5

\* the number of fingers of the data that agree with the expected pattern
MatchingFingers == 5 - Cardinality(MismatchedFingers(gestureData))

\* C32: an evaluation is correct exactly when 3 or more of the 5 finger
\* booleans equal the expected pattern of the target letter, whatever the
\* stability and orientation bonuses are; 4 matching fingers give the match
\* score 1.0 of 5 matching fingers.
C32_CorrectIffThreeMatch ==
  (evaluationResult # <<>> /\ ~AnalysisThrows(gestureData)) =>
    /\ evaluationResult[1].isCorrect <=> MatchingFingers >= 3
    /\ MatchingFingers >= 4 =>
         /\ compareWithExpectedPattern(fingerAnalysisOf(gestureData),
                                       getExpectedASLPattern(gestureData.targetLetter)) = 100
         /\ evaluationResult[1].confidence = 100

\* 3 matching fingers were judged correct without any bonus
C32_Witness ==
  /\ evaluationResult # <<>>
  /\ ~AnalysisThrows(gestureData)
  /\ MatchingFingers = 3
  /\ gestureData.isStable = <<>>
  /\ gestureData.handOrientation = ""
  /\ evaluationResult[1].isCorrect

\* C33: evaluateHandGesture resolves for every input, and for data without
\* finger states whose landmark array lacks one of the indices 0..20 it
\* resolves to the failure result: not correct, confidence 0, the feedback
\* 'Unable to evaluate gesture'.
C33_FailureResultOnMissingLandmark ==
  (/\ evaluationResult # <<>>
   /\ ~gestureData.hasFingerStates
   /\ \E i \in 0..20 : i \notin DOMAIN gestureData.landmarks) =>
    /\ ~evaluationResult[1].isCorrect
    /\ evaluationResult[1].confidence = 0
    /\ evaluationResult[1].feedback
         = <<[say |-> "Unable to evaluate gesture", finger |-> ""]>>

\* an array that lacks only landmark 20 was evaluated
C33_Witness ==
  /\ evaluationResult # <<>>
  /\ ~gestureData.hasFingerStates
  /\ DOMAIN gestureData.landmarks = 0..19
  /\ evaluationResult[1].confidence = 0

\* what an evaluation decides: everything but the reasoning text
Judgement(result) ==
  [isCorrect |-> result.isCorrect, confidence |-> result.confidence,
   feedback |-> result.feedback,
   suggestedImprovements |-> result.suggestedImprovements]

\* the judgement of the data when its target letter is replaced by L
JudgementFor(L) ==
  Judgement(evaluateHandGesture([gestureData EXCEPT !.targetLetter = L]))

\* C34 as claimed: a lower-case letter is judged as its upper-case letter,
\* and every target that is not a letter A-Z or a-z is judged as 'A'.
C34_NonLetterAsA ==
  evaluationResult # <<>> =>
    /\ \A i \in 1..26 :
         gestureData.targetLetter = LowerCase[i] =>
           Judgement(evaluationResult[1]) = JudgementFor(UpperCase[i])
    /\ (\A i \in 1..26 : gestureData.targetLetter \notin {LowerCase[i], UpperCase[i]}) =>
         Judgement(evaluationResult[1]) = JudgementFor("A")

\* C34 amended: a lower-case letter is judged as its upper-case letter,
\* dotless i as 'I' and long s as 'S', and every other target that is not a
\* letter A-Z is judged as 'A'.
C34_UpperCasedOrA ==
  evaluationResult # <<>> =>
    /\ \A i \in 1..26 :
         gestureData.targetLetter = LowerCase[i] =>
           Judgement(evaluationResult[1]) = JudgementFor(UpperCase[i])
    /\ gestureData.targetLetter = DotlessI =>
         Judgement(evaluationResult[1]) = JudgementFor("I")
    /\ gestureData.targetLetter = LongS =>
         Judgement(evaluationResult[1]) = JudgementFor("S")
    /\ (/\ \A i \in 1..26 : gestureData.targetLetter \notin {LowerCase[i], UpperCase[i]}
        /\ gestureData.targetLetter \notin {DotlessI, LongS}) =>
         Judgement(evaluationResult[1]) = JudgementFor("A")

\* a digit as target was judged correct for a hand with the thumb extended
C34_Witness ==
  /\ evaluationResult # <<>>
  /\ gestureData.targetLetter = "1"
  /\ gestureData.hasFingerStates
  /\ gestureData.fingerStates.thumb.extended
  /\ evaluationResult[1].isCorrect

\* positions of the name that ProgressCard paints as completed
CompletedPositions ==
  {index \in 0..(Len(learningState.userName) - 1) :
     index < learningState.currentLetterIndex}

\* C36: whenever the name is non-empty, the positions ProgressCard marks as
\* completed are exactly those of the letters passed by an accepted
\* handleNextLetter since the name was submitted; after the last letter
\* every position is marked.
C36_CompletedAreConfirmed ==
  learningState.userName # <<>> =>
    CompletedPositions =
      {index \in 0..(Len(learningState.userName) - 1) : index < advances}

\* C37: the isStable flag of the hand state the camera's UI reads is false
\* in every reachable state, whatever the stability effect has computed.
C37_IsStableNeverSet == ~handState.isStable

\* the stability effect found the pose stable for long enough to confirm it,
\* and the hand state shown still says not stable
C37_Witness ==
  /\ lastOp = "confirmAccepted"
  /\ handState.isInCircle
  /\ ~handState.isStable

\* C38: isProcessingRef is true exactly when one guard-reset timer is
\* pending, and never more than one is pending, after any sequence of
\* submissions, advances, resets and timer expiries.
C38_GuardIffOneTimer ==
  /\ Len(guardTimers) <= 1
  /\ isProcessingRef <=> Len(guardTimers) = 1

\* the lesson was reset and a new name submitted while the timer of the last
\* advance was pending
C38_Witness ==
  /\ lastOp = "submit"
  /\ isProcessingRef
  /\ Len(guardTimers) = 1
  /\ guardTimers[1] < GUARD_DELAY

\* the camera streams with a live track
LiveStreams == {i \in 1..Len(cameras) : cameras[i].streamRef = "live"}

\* C39: once the cleanup of an instance has run, that instance has no live
\* camera stream and no frame requested, however the cleanup interleaves
\* with the pending steps of initializeCamera and initializeMediaPipe; and
\* at most one camera stream is live at any time.
C39_NothingLeftAfterCleanup ==
  /\ \A i \in 1..Len(cameras) :
       ~cameras[i].mounted =>
         /\ cameras[i].streamRef # "live"
         /\ ~cameras[i].frameRequested
  /\ Cardinality(LiveStreams) <= 1

\* the Manhattan distance between two landmarks
Manhattan(a, b) == Abs(a.x - b.x) + Abs(a.y - b.y)

\* C35: index, middle, ring and pinky are extended exactly when the tip's y
\* is strictly smaller than the PIP joint's y (landmarks 8/6, 12/10, 16/14,
\* 20/18), and the thumb exactly when the Manhattan distance from the wrist
\* to its tip (4) exceeds 1.2 times that from the wrist to its MCP joint (2).
C35_FingerStatesFromLandmarks ==
  detectedFingers # <<>> =>
    LET lm == detectLandmarks
        fg == detectedFingers[1]
    IN /\ fg.index <=> lm[8].y < lm[6].y
       /\ fg.middle <=> lm[12].y < lm[10].y
       /\ fg.ring <=> lm[16].y < lm[14].y
       /\ fg.pinky <=> lm[20].y < lm[18].y
       /\ fg.thumb <=> 10 * Manhattan(lm[0], lm[4]) > 12 * Manhattan(lm[0], lm[2])

\* a hand whose thumb tip is farther from the wrist than the MCP joint but
\* within 1.2 times, and whose index tip is level with its PIP joint, was
\* found to have thumb and index closed and the middle finger extended
C35_Witness ==
  /\ detectedFingers # <<>>
  /\ Manhattan(detectLandmarks[0], detectLandmarks[4])
       > Manhattan(detectLandmarks[0], detectLandmarks[2])
  /\ detectLandmarks[8].y = detectLandmarks[6].y
  /\ ~detectedFingers[1].thumb
  /\ ~detectedFingers[1].index
  /\ detectedFingers[1].middle

\* ------------------------------------------------------- specifications
Spec == Init /\ [][Next]_vars

\* the lesson driven by the camera alone: the buttons of ProgressCard are
\* not used.  The frame loop keeps delivering results, React runs scheduled
\* effects, due timers fire, and time does not stop.
NextLive ==
  \/ SubmitName
  \/ OnResults
  \/ RunEffect
  \/ CooldownExpires
  \/ GuardExpires
  \/ Tick

\* a counter-based variant whose parent renders only when onCorrectGesture
\* is called
VariantNextLive ==
  \/ VariantOnResults
  \/ CameraEffectReruns
  \/ ConfirmTimeoutFires
  \/ VariantTick

\* results keep arriving, scheduled effects run, timers fire and time passes
VariantLiveSpec ==
  /\ VariantInit
  /\ [][VariantNextLive]_vars
  /\ WF_vars(VariantOnResults)
  /\ WF_vars(CameraEffectReruns)
  /\ WF_vars(ConfirmTimeoutFires)
  /\ SF_vars(VariantTick)

\* a counter-based variant with any target letter, fed arbitrary results
VariantSpec == VariantInit /\ [][VariantNext]_vars

\* compareWithExpectedPattern as a function of finger states and target
PatternSpec == PatternInit /\ [][CompareWithExpected]_vars

\* isHandStateStable called on every pair of hand states
StableSpec == StableInit /\ [][IsHandStateStable]_vars

\* the evaluation service run on every input
EvalSpec == EvalInit /\ [][EvaluateHandGesture]_vars

\* detectFingerStates called on the landmarks of every hand
DetectSpec == DetectInit /\ [][DetectFingerStates]_vars

\* CameraComponent mounted and unmounted while its camera starts
CameraSpec == CameraInit /\ [][CameraNext]_vars

\* classifyHandGesture as a function of the hand
ClassifierSpec == ClassifierInit /\ [][Classify]_vars

LiveSpec ==
  /\ Init
  /\ [][NextLive]_vars
  /\ WF_vars(OnResults)
  /\ WF_vars(RunEffect)
  /\ WF_vars(CooldownExpires)
  /\ WF_vars(GuardExpires)
  /\ SF_vars(Tick)

====
